---- MODULE Spec2Model ----
(***************************************************************************)
(* banking-trace-tool: the graphia-input conflict graph                    *)
(* (src/src/graphia_input.rs, GraphiaInputHandler::report).                *)
(*                                                                         *)
(* report() sorts the decoded transactions by priority, inserts them into  *)
(* a prio_graph::PrioGraph and drains it layer by layer, pushing one node  *)
(* per popped transaction and one edge per target that an unblock made     *)
(* ready.  PrioGraph and its main queue (a std BinaryHeap) are an external *)
(* crate whose source is not part of this repository: the definitions that *)
(* model them follow the crate's documented behaviour.                     *)
(*                                                                         *)
(* The second part is the window of the event handlers: handle_event of    *)
(* the timestamp handlers (dump.rs, duplicate_check.rs, packet_count.rs)   *)
(* and of the slot handlers (account_usage.rs, update_alt_store.rs), fed   *)
(* the events of a replay one by one.                                      *)
(*                                                                         *)
(* The third part is what surrounds report(): the replay into the          *)
(* handlers of graphia-input, packet-count and duplicate-check, packet by  *)
(* packet, and the collection of the tuples from the accumulated batches   *)
(* (decoding, get_priority_and_requested_cus, lookup resolution).          *)
(*                                                                         *)
(* The fourth part is update-alt-store with the store it appends to        *)
(* (update_alt_store.rs), slot-ranges (slot_ranges.rs) and the counts of   *)
(* DuplicateChecker::report.                                               *)
(***************************************************************************)
EXTENDS Integers, Sequences, FiniteSets, TLC

\* ------------------------------------------------------------------ bounds
MaxTx == 3
NumAccounts == 2
MaxPrio == 3

Accounts == 1..NumAccounts
Priorities == {10 * k : k \in 1..MaxPrio}

\* A decoded transaction: (tx, priority, requested_cus) of report(); the
\* signature stands for the transaction (here its position in arrival order),
\* the lock sets for what get_account_locks_unchecked() returns.
\* The writable and the readonly keys of a transaction are disjoint.
DecodedTransactions ==
    {t \in [priority : Priorities, writable : SUBSET Accounts,
            readonly : SUBSET Accounts] : t.writable \cap t.readonly = {}}

\* The tuple of the i-th transaction collected.
TransactionTuple(i, t) ==
    [signature |-> i, priority |-> t.priority,
     writable |-> t.writable, readonly |-> t.readonly]

VARIABLES
    transaction_tuples,  \* Vec<(tx, priority, requested_cus)>
    pc,                  \* position in report()
    next_index,          \* transaction_iterator: how many tuples it has yielded
    prio_graph,          \* PrioGraph { locks, nodes, main_queue }
    popped,              \* Vec<PriorityIndex> of the current drain iteration
    nodes,               \* graphia_input.graph.nodes (node ids, in push order)
    edges,               \* graphia_input.graph.edges
    edge_count,          \* edge_count
    layers,              \* history: the popped vectors, one per drain iteration
    unblocked_log,       \* history: every (popped, target) an unblock returned
    run,                 \* which run of the tool on this input (1 or 2)
    first_run,           \* history: the export of run 1, kept for run 2
    handler,             \* the event handler (self of handle_event)
    events               \* history: the events fed to handle_event, and its effect

\* The state of report(), and the state of an event handler during a replay.
report_vars == <<transaction_tuples, pc, next_index, prio_graph, popped, nodes, edges,
                 edge_count, layers, unblocked_log, run, first_run>>

handler_vars == <<handler, events>>

vars == <<transaction_tuples, pc, next_index, prio_graph, popped, nodes, edges,
          edge_count, layers, unblocked_log, run, first_run, handler, events>>

\* ------------------------------------------------------------ small helpers
RECURSIVE SetToSeq(_)
SetToSeq(S) ==
    IF S = {} THEN <<>>
    ELSE LET m == CHOOSE x \in S : \A y \in S : x <= y
         IN <<m>> \o SetToSeq(S \ {m})

Range(s) == {s[i] : i \in 1..Len(s)}

\* The orders in which a HashSet's elements can be iterated.
Orderings(S) ==
    {s \in [1..Cardinality(S) -> S] : \A i, j \in 1..Cardinality(S) : s[i] = s[j] => i = j}

\* u64::cmp
CmpU64(a, b) == IF a < b THEN "Less" ELSE IF a = b THEN "Equal" ELSE "Greater"

\* ------------------------------------------------- sort (graphia_input.rs:84)
\* Mutant of SortCmp: the operands the other way round, lowest priority first.
SortCmpAscending(a, b) == CmpU64(a.priority, b.priority)

\* transaction_tuples.sort_by(|a, b| b.1.cmp(&a.1))
SortCmp(a, b) == CmpU64(b.priority, a.priority)

\* Mutant of InsertSorted: an unstable sort, x goes before the elements that
\* compare Equal to it.
RECURSIVE InsertSortedUnstable(_, _)
InsertSortedUnstable(sorted, x) ==
    IF sorted = <<>> THEN <<x>>
    ELSE LET last == sorted[Len(sorted)]
         IN IF SortCmp(last, x) # "Less"
            THEN Append(InsertSortedUnstable(SubSeq(sorted, 1, Len(sorted) - 1), x), last)
            ELSE Append(sorted, x)

\* Vec::sort_by is a stable sort: x goes after every element that does not
\* compare Greater than it.
RECURSIVE InsertSorted(_, _)
InsertSorted(sorted, x) ==
    IF sorted = <<>> THEN <<x>>
    ELSE LET last == sorted[Len(sorted)]
         IN IF SortCmp(last, x) = "Greater"
            THEN Append(InsertSorted(SubSeq(sorted, 1, Len(sorted) - 1), x), last)
            ELSE Append(sorted, x)

RECURSIVE SortByPriority(_)
SortByPriority(s) ==
    IF s = <<>> THEN <<>>
    ELSE InsertSorted(SortByPriority(SubSeq(s, 1, Len(s) - 1)), s[Len(s)])

\* ------------------------------------- PriorityIndex (graphia_input.rs:87-106)
PriorityIndex(priority, index) == [priority |-> priority, index |-> index]

\* impl Ord for PriorityIndex: compares the priority alone.
PriorityIndexCmp(a, b) == CmpU64(a.priority, b.priority)

PriorityIndexLe(a, b) == PriorityIndexCmp(a, b) # "Greater"

\* PrioGraph::new(|pi, _| *pi): the top-level id of a node is its id.
TopLevelPrioritization(id) == id

\* --------------------------------------------- main_queue: std BinaryHeap
\* Positions are 0-based as in the Vec behind the heap; data[p + 1] is slot p.
RECURSIVE SiftUp(_, _, _, _)
SiftUp(data, start, pos, elem) ==
    IF pos > start
    THEN LET parent == (pos - 1) \div 2
         IN IF PriorityIndexLe(elem, data[parent + 1])
            THEN [data EXCEPT ![pos + 1] = elem]
            ELSE SiftUp([data EXCEPT ![pos + 1] = data[parent + 1]], start, parent, elem)
    ELSE [data EXCEPT ![pos + 1] = elem]

HeapPush(data, item) == SiftUp(Append(data, item), 0, Len(data), item)

RECURSIVE SiftDownToBottom(_, _, _, _)
SiftDownToBottom(data, start, pos, elem) ==
    LET end == Len(data)
        child == 2 * pos + 1
    IN IF end >= 2 /\ child <= end - 2
       THEN LET c == IF PriorityIndexLe(data[child + 1], data[child + 2])
                     THEN child + 1 ELSE child
            IN SiftDownToBottom([data EXCEPT ![pos + 1] = data[c + 1]], start, c, elem)
       ELSE IF child = end - 1
            THEN SiftUp([data EXCEPT ![pos + 1] = data[child + 1]], start, child, elem)
            ELSE SiftUp(data, start, pos, elem)

\* BinaryHeap::pop: [item |-> {} or {x}, data |-> the heap afterwards]
HeapPop(data) ==
    IF data = <<>> THEN [item |-> {}, data |-> data]
    ELSE LET last == data[Len(data)]
             rest == SubSeq(data, 1, Len(data) - 1)
         IN IF rest = <<>> THEN [item |-> {last}, data |-> rest]
            ELSE [item |-> {rest[1]}, data |-> SiftDownToBottom(rest, 0, 0, last)]

\* ------------------------------------------------------- prio_graph::Lock
\* Lock::Write(id)            = [kind |-> "Write", ids |-> <<id>>, write |-> {}]
\* Lock::Read(ids, Option<w>) = [kind |-> "Read",  ids |-> ids,    write |-> {} or {w}]
LockWrite(id) == [kind |-> "Write", ids |-> <<id>>, write |-> {}]
LockRead(ids, write) == [kind |-> "Read", ids |-> ids, write |-> write]

\* Lock::add_read: the writer blocking the added read, if any.
LockAddRead(lock, id) ==
    IF lock.kind = "Read"
    THEN [lock |-> LockRead(Append(lock.ids, id), lock.write),
          blocking |-> IF lock.write = {} THEN <<>>
                       ELSE <<CHOOSE w \in lock.write : TRUE>>]
    ELSE [lock |-> LockRead(<<id>>, {lock.ids[1]}), blocking |-> <<lock.ids[1]>>]

\* Lock::add_write: the holders blocking the added write: the readers of a
\* read lock, or the writer of a write lock.
LockAddWrite(lock, id) == [lock |-> LockWrite(id), blocking |-> lock.ids]

\* ------------------------------------------------- prio_graph::PrioGraph
EmptyPrioGraph == [locks |-> <<>>, nodes |-> <<>>, main_queue |-> <<>>]

GraphNode(active, node_edges, blocked_by_count) ==
    [active |-> active, edges |-> node_edges, blocked_by_count |-> blocked_by_count]

\* The block_tx closure of insert_transaction, over st = [nodes, count].
BlockTx(st, blocking_id, id) ==
    IF blocking_id = id THEN st
    ELSE IF st.nodes[blocking_id].active /\ id \notin st.nodes[blocking_id].edges
         THEN [nodes |-> [st.nodes EXCEPT ![blocking_id].edges = @ \cup {id}],
               count |-> st.count + 1]
         ELSE st

RECURSIVE BlockAll(_, _, _)
BlockAll(st, blocking, id) ==
    IF blocking = <<>> THEN st
    ELSE BlockAll(BlockTx(st, Head(blocking), id), Tail(blocking), id)

\* The loop of insert_transaction over the (resource, access kind) pairs.
RECURSIVE InsertAccesses(_, _, _, _)
InsertAccesses(locks, st, id, access) ==
    IF access = <<>> THEN [locks |-> locks, st |-> st]
    ELSE LET rk == Head(access).key
             kind == Head(access).kind
         IN IF rk \notin DOMAIN locks
            THEN InsertAccesses(
                     (rk :> (IF kind = "Read" THEN LockRead(<<id>>, {}) ELSE LockWrite(id)))
                         @@ locks,
                     st, id, Tail(access))
            ELSE LET r == IF kind = "Read" THEN LockAddRead(locks[rk], id)
                                           ELSE LockAddWrite(locks[rk], id)
                 IN InsertAccesses([locks EXCEPT ![rk] = r.lock],
                                   BlockAll(st, r.blocking, id), id, Tail(access))

\* PrioGraph::insert_transaction
insert_transaction(pg, id, access) ==
    LET r == InsertAccesses(pg.locks, [nodes |-> pg.nodes, count |-> 0], id, access)
        node == GraphNode(TRUE, {}, r.st.count)
    IN [locks |-> r.locks,
        nodes |-> (id :> node) @@ r.st.nodes,
        main_queue |-> IF r.st.count = 0
                       THEN HeapPush(pg.main_queue, TopLevelPrioritization(id))
                       ELSE pg.main_queue]

\* PrioGraph::is_empty: "true if the top-of-queue is empty"
is_empty(pg) == pg.main_queue = <<>>

\* PrioGraph::pop
pop(pg) ==
    LET r == HeapPop(pg.main_queue)
    IN [id |-> r.item, graph |-> [pg EXCEPT !.main_queue = r.data]]

\* PrioGraph::is_blocked
is_blocked(pg, id) == pg.nodes[id].blocked_by_count # 0

\* The loop of unblock over the edges of the node, in iteration order.
RECURSIVE UnblockEdges(_, _)
UnblockEdges(pg, order) ==
    IF order = <<>> THEN pg
    ELSE LET b == Head(order)
             count == pg.nodes[b].blocked_by_count - 1
             pg1 == [pg EXCEPT !.nodes[b].blocked_by_count = count]
         IN UnblockEdges(
                IF count = 0
                THEN [pg1 EXCEPT !.main_queue = HeapPush(@, TopLevelPrioritization(b))]
                ELSE pg1,
                Tail(order))

\* PrioGraph::unblock: takes the edges of the node and returns them; `order`
\* is the order in which that HashSet is iterated.
unblock(pg, id, order) ==
    UnblockEdges([pg EXCEPT !.nodes[id].active = FALSE, !.nodes[id].edges = {}], order)

\* -------------------------------------------------- report(): the driver
\* Mutant of TransactionAccess: the two access kinds mixed up.
TransactionAccessSwapped(tx) ==
    [i \in 1..Cardinality(tx.writable) |->
        [key |-> SetToSeq(tx.writable)[i], kind |-> "Read"]]
    \o [i \in 1..Cardinality(tx.readonly) |->
        [key |-> SetToSeq(tx.readonly)[i], kind |-> "Write"]]

\* Mutant of TransactionAccess: every lock taken as a write lock.
TransactionAccessAllWrites(tx) ==
    [i \in 1..Cardinality(tx.writable) |->
        [key |-> SetToSeq(tx.writable)[i], kind |-> "Write"]]
    \o [i \in 1..Cardinality(tx.readonly) |->
        [key |-> SetToSeq(tx.readonly)[i], kind |-> "Write"]]

\* The transaction_access of insert_next_transaction: the write locks, then
\* the read locks.
TransactionAccess(tx) ==
    [i \in 1..Cardinality(tx.writable) |->
        [key |-> SetToSeq(tx.writable)[i], kind |-> "Write"]]
    \o [i \in 1..Cardinality(tx.readonly) |->
        [key |-> SetToSeq(tx.readonly)[i], kind |-> "Read"]]

\* The id of the tuple at 0-based position index of transaction_tuples.
IdAt(index) == PriorityIndex(transaction_tuples[index + 1].priority, index)

\* report() takes the handler as it is after the replay; its run feeds no event.
NoHandler == [type |-> "none"]

FreshRun ==
    /\ next_index = 0
    /\ prio_graph = EmptyPrioGraph
    /\ popped = <<>>
    /\ nodes = <<>>
    /\ edges = <<>>
    /\ edge_count = 0
    /\ layers = <<>>
    /\ unblocked_log = {}

Init ==
    /\ \E n \in 0..MaxTx :
          \E s \in [1..n -> DecodedTransactions] :
              transaction_tuples = [i \in 1..n |-> TransactionTuple(i, s[i])]
    /\ pc = "sort"
    /\ FreshRun
    /\ run = 1
    /\ first_run = <<>>
    /\ handler = NoHandler
    /\ events = <<>>

\* graphia_input.rs:84
SortTuples ==
    /\ pc = "sort"
    /\ transaction_tuples' = SortByPriority(transaction_tuples)
    /\ pc' = "insert"
    /\ UNCHANGED <<next_index, prio_graph, popped, nodes, edges, edge_count,
                   layers, unblocked_log, run, first_run>>
    /\ UNCHANGED handler_vars

\* Mutant of HasNextTransaction: the iterator stops one tuple early.
HasNextTransactionOffByOne == next_index + 1 < Len(transaction_tuples)

\* transaction_iterator.next() is Some (graphia_input.rs:112)
HasNextTransaction == next_index < Len(transaction_tuples)

\* insert_next_transaction returning true (graphia_input.rs:111-136)
InsertNextTransaction ==
    /\ pc = "insert"
    /\ HasNextTransaction
    /\ prio_graph' = insert_transaction(prio_graph, IdAt(next_index),
                         TransactionAccess(transaction_tuples[next_index + 1]))
    /\ next_index' = next_index + 1
    /\ UNCHANGED <<transaction_tuples, pc, popped, nodes, edges, edge_count,
                   layers, unblocked_log, run, first_run>>
    /\ UNCHANGED handler_vars

\* insert_next_transaction returning false ends the insertion loop
\* (graphia_input.rs:112-114, 138-140)
InsertExhausted ==
    /\ pc = "insert"
    /\ ~HasNextTransaction
    /\ edge_count' = 0
    /\ pc' = "loop"
    /\ UNCHANGED <<transaction_tuples, next_index, prio_graph, popped, nodes, edges,
                   layers, unblocked_log, run, first_run>>
    /\ UNCHANGED handler_vars

\* Mutant of DrainTest: the loop body entered without the is_empty test
\* (a do-while drain).
DrainTestNoCheck ==
    /\ pc = "loop"
    /\ pc' = "pop" /\ popped' = <<>>
    /\ UNCHANGED <<transaction_tuples, next_index, prio_graph, nodes, edges,
                   edge_count, layers, unblocked_log, run, first_run>>
    /\ UNCHANGED handler_vars

\* while !prio_graph.is_empty() (graphia_input.rs:141-142)
DrainTest ==
    /\ pc = "loop"
    /\ IF is_empty(prio_graph)
       THEN pc' = "done" /\ popped' = popped
       ELSE pc' = "pop" /\ popped' = <<>>
    /\ UNCHANGED <<transaction_tuples, next_index, prio_graph, nodes, edges,
                   edge_count, layers, unblocked_log, run, first_run>>
    /\ UNCHANGED handler_vars

\* while let Some(id) = prio_graph.pop() (graphia_input.rs:143-156)
PopNext ==
    /\ pc = "pop"
    /\ LET r == pop(prio_graph)
       IN /\ prio_graph' = r.graph
          /\ IF r.id = {}
             THEN /\ pc' = "unblock"
                  /\ layers' = Append(layers, popped)
                  /\ UNCHANGED <<popped, nodes>>
             ELSE LET id == CHOOSE x \in r.id : TRUE
                  IN /\ popped' = Append(popped, id)
                     /\ nodes' = Append(nodes, id.index)
                     /\ UNCHANGED <<pc, layers>>
    /\ UNCHANGED <<transaction_tuples, next_index, edges, edge_count,
                   unblocked_log, run, first_run>>
    /\ UNCHANGED handler_vars

\* Mutant of PushEdges: the popped node written as the target too.
RECURSIVE PushEdgesSelfLoop(_, _, _, _, _)
PushEdgesSelfLoop(es, count, pg, source, unblocked) ==
    IF unblocked = <<>> THEN [edges |-> es, edge_count |-> count]
    ELSE LET target == Head(unblocked)
         IN IF ~is_blocked(pg, target)
            THEN PushEdgesSelfLoop(Append(es, [id |-> count, source |-> source.index,
                                               target |-> source.index]),
                                   count + 1, pg, source, Tail(unblocked))
            ELSE PushEdgesSelfLoop(es, count, pg, source, Tail(unblocked))

\* Mutant of PushEdges: no is_blocked test, one edge per returned target.
RECURSIVE PushEdgesUnfiltered(_, _, _, _, _)
PushEdgesUnfiltered(es, count, pg, source, unblocked) ==
    IF unblocked = <<>> THEN [edges |-> es, edge_count |-> count]
    ELSE PushEdgesUnfiltered(Append(es, [id |-> count, source |-> source.index,
                                         target |-> Head(unblocked).index]),
                             count + 1, pg, source, Tail(unblocked))

\* The edges pushed for one unblocked vector (graphia_input.rs:162-172).
RECURSIVE PushEdges(_, _, _, _, _)
PushEdges(es, count, pg, source, unblocked) ==
    IF unblocked = <<>> THEN [edges |-> es, edge_count |-> count]
    ELSE LET target == Head(unblocked)
         IN IF ~is_blocked(pg, target)
            THEN PushEdges(Append(es, [id |-> count, source |-> source.index,
                                       target |-> target.index]),
                           count + 1, pg, source, Tail(unblocked))
            ELSE PushEdges(es, count, pg, source, Tail(unblocked))

\* Mutant of RemainingPopped: only the first popped node is unblocked.
RemainingPoppedNone(p) == <<>>

\* Mutant of RemainingPopped: the rest of the layer visited last popped first.
RemainingPoppedReversed(p) == [i \in 1..(Len(p) - 1) |-> p[Len(p) + 1 - i]]

\* What `for popped in popped` still has to visit after the head of p.
RemainingPopped(p) == Tail(p)

\* One iteration of `for popped in popped` (graphia_input.rs:158-173); after
\* the last one control returns to the loop test.
UnblockNext ==
    /\ pc = "unblock"
    /\ popped # <<>>
    /\ LET p == Head(popped)
       IN \E order \in Orderings(prio_graph.nodes[p].edges) :
             LET pg == unblock(prio_graph, p, order)
                 r == PushEdges(edges, edge_count, pg, p, order)
             IN /\ prio_graph' = pg
                /\ edges' = r.edges
                /\ edge_count' = r.edge_count
                /\ unblocked_log' = unblocked_log \cup {<<p.index, order[i].index>> :
                                                          i \in 1..Len(order)}
    /\ popped' = RemainingPopped(popped)
    /\ pc' = IF RemainingPopped(popped) = <<>> THEN "loop" ELSE "unblock"
    /\ UNCHANGED <<transaction_tuples, next_index, nodes, layers, run, first_run>>
    /\ UNCHANGED handler_vars

Next ==
    \/ SortTuples
    \/ InsertNextTransaction
    \/ InsertExhausted
    \/ DrainTest
    \/ PopNext
    \/ UnblockNext

Spec == Init /\ [][Next]_vars

\* The tool run a second time on the same transactions: a fresh PrioGraph and
\* a fresh GraphiaInput fed the identical insertion sequence.
Rerun ==
    /\ pc = "done"
    /\ run = 1
    /\ first_run' = [nodes |-> nodes, layers |-> layers, edges |-> edges]
    /\ run' = 2
    /\ pc' = "insert"
    /\ next_index' = 0
    /\ prio_graph' = EmptyPrioGraph
    /\ popped' = <<>>
    /\ nodes' = <<>>
    /\ edges' = <<>>
    /\ edge_count' = 0
    /\ layers' = <<>>
    /\ unblocked_log' = {}
    /\ UNCHANGED transaction_tuples
    /\ UNCHANGED handler_vars

NextRerun == Next \/ Rerun

SpecRerun == Init /\ [][NextRerun]_vars

\* ------------------------------------------------- the windowed handlers
\* Every analysis feeds each event of the replay to handle_event of its
\* handler.  The handlers of dump, duplicate-check and packet-count hold a
\* window of timestamps (the same handle_event in the three files); those of
\* account-usage and update-alt-store hold a range of slots.
MaxTime == 6
MaxSlot == 3
MaxEvents == 4

Timestamps == 1..MaxTime
Slots == 1..MaxSlot

\* Option<T>: None is {}, Some(x) is {x}.
Option(S) == {{}} \cup {{x} : x \in S}

\* ChannelLabel of a PacketBatch event.
Labels == {"NonVote", "TpuVote", "GossipVote"}

\* TracedEvent, as far as a timestamp handler looks at it.
TracedEventKinds == {"PacketBatch", "BlockAndBankHash"}

\* TracedEvent, as far as a slot handler looks at it.
TracedEvents ==
    {[kind |-> "PacketBatch", label |-> l] : l \in Labels}
    \cup {[kind |-> "BlockAndBankHash", slot |-> s] : s \in Slots}

\* DuplicateChecker::new, PacketCounter::new, Dumper::new
NewTimestampHandler(start_timestamp, end_timestamp) ==
    [type |-> "TimestampHandler",
     start_timestamp |-> start_timestamp,
     end_timestamp |-> end_timestamp,
     started |-> start_timestamp = {},
     done |-> FALSE]

\* Mutant of StartedAfter: the start bound taken as exclusive.
StartedAfterExclusive(h, timestamp) ==
    h.started \/ (IF h.start_timestamp = {} THEN TRUE
                  ELSE \E start \in h.start_timestamp : timestamp > start)

\* self.started || self.start_timestamp.map(|start| timestamp >= start).unwrap_or(true)
StartedAfter(h, timestamp) ==
    h.started \/ (IF h.start_timestamp = {} THEN TRUE
                  ELSE \E start \in h.start_timestamp : timestamp >= start)

\* Mutant of DoneAfter: the end bound taken as exclusive.
DoneAfterAtEnd(h, timestamp) ==
    h.done \/ (IF h.end_timestamp = {} THEN FALSE
               ELSE \E end \in h.end_timestamp : timestamp >= end)

\* self.done || self.end_timestamp.map(|end| timestamp > end).unwrap_or(false)
DoneAfter(h, timestamp) ==
    h.done \/ (IF h.end_timestamp = {} THEN FALSE
               ELSE \E end \in h.end_timestamp : timestamp > end)

\* Mutant of Dispatches: the started flag not looked at.
DispatchesUnlessDone(h) == ~h.done

\* if self.started && !self.done
Dispatches(h) == h.started /\ ~h.done

\* The handler the match of handle_event calls for an event of this kind.
DispatchOf(kind) ==
    IF kind = "PacketBatch" THEN "handle_packet_batches" ELSE "handle_block_and_bank_hash"

\* handle_event of a timestamp handler: the handler afterwards, and the
\* handler the event was dispatched to ("none" if it was not acted upon).
TimestampHandleEvent(h, timestamp, kind) ==
    IF h.done THEN [handler |-> h, dispatched |-> "none"]
    ELSE LET h1 == [h EXCEPT !.started = StartedAfter(h, timestamp)]
             h2 == [h1 EXCEPT !.done = DoneAfter(h1, timestamp)]
         IN [handler |-> h2,
             dispatched |-> IF Dispatches(h2) THEN DispatchOf(kind) ELSE "none"]

\* AccountUsageHandler::new, UpdateAddressLookupTableStoreHandler::new
NewSlotHandler(type, start_slot, end_slot) ==
    [type |-> type,
     range |-> [start |-> start_slot, end |-> end_slot],
     current_packet_batches |-> <<>>,
     done |-> FALSE]

\* Mutant of RangeContains: the range taken without its end slot.
RangeContainsHalfOpen(range, slot) == range.start <= slot /\ slot < range.end

\* RangeInclusive::contains
RangeContains(range, slot) == range.start <= slot /\ slot <= range.end

\* Mutant of PastRangeEnd: the end slot itself taken as past the range.
PastRangeEndAtEnd(range, slot) == ~RangeContains(range, slot) /\ slot >= range.end

\* if !self.range.contains(&slot) { if slot > *self.range.end() { done = true } }
PastRangeEnd(range, slot) == ~RangeContains(range, slot) /\ slot > range.end

\* handle_packet_batches of a slot handler; batch names the pushed batch.
SlotHandlePacketBatches(h, label, batch) ==
    IF label = "NonVote"
    THEN [h EXCEPT !.current_packet_batches = Append(@, batch)]
    ELSE h

\* handle_block_and_bank_hash of a slot handler: outside the range nothing
\* but the done flag changes; inside it account-usage clears the batches and
\* update-alt-store updates the store from them and clears them.
SlotHandleBlockAndBankHash(h, slot) ==
    IF ~RangeContains(h.range, slot)
    THEN [handler |-> [h EXCEPT !.done = @ \/ PastRangeEnd(h.range, slot)],
          effect |-> "none"]
    ELSE [handler |-> [h EXCEPT !.current_packet_batches = <<>>],
          effect |-> IF h.type = "AccountUsageHandler" THEN "clear" ELSE "update_and_clear"]

\* handle_event of a slot handler.
SlotHandleEvent(h, event, batch) ==
    IF h.done THEN [handler |-> h, effect |-> "ignored"]
    ELSE IF event.kind = "PacketBatch"
         THEN [handler |-> SlotHandlePacketBatches(h, event.label, batch),
               effect |-> IF event.label = "NonVote" THEN "push" ELSE "none"]
         ELSE SlotHandleBlockAndBankHash(h, event.slot)

\* No report() runs while events are replayed.
ReportIdle ==
    /\ transaction_tuples = <<>>
    /\ pc = "replay"
    /\ FreshRun
    /\ run = 1
    /\ first_run = <<>>

InitWindow ==
    /\ ReportIdle
    /\ events = <<>>
    /\ \/ \E start_timestamp \in Option(Timestamps), end_timestamp \in Option(Timestamps) :
             handler = NewTimestampHandler(start_timestamp, end_timestamp)
       \/ \E type \in {"AccountUsageHandler", "UpdateAddressLookupTableStoreHandler"} :
             \E start_slot \in Slots, end_slot \in Slots :
                handler = NewSlotHandler(type, start_slot, end_slot)

\* process_event_files feeds the next event to a timestamp handler.
HandleTimestampEvent ==
    /\ handler.type = "TimestampHandler"
    /\ Len(events) < MaxEvents
    /\ \E timestamp \in Timestamps, kind \in TracedEventKinds :
          LET r == TimestampHandleEvent(handler, timestamp, kind)
          IN /\ handler' = r.handler
             /\ events' = Append(events, [timestamp |-> timestamp, kind |-> kind,
                                          ignored |-> handler.done,
                                          dispatched |-> r.dispatched,
                                          started |-> r.handler.started,
                                          done |-> r.handler.done])
    /\ UNCHANGED report_vars

\* process_event_files feeds the next event to a slot handler.
HandleSlotEvent ==
    /\ handler.type \in {"AccountUsageHandler", "UpdateAddressLookupTableStoreHandler"}
    /\ Len(events) < MaxEvents
    /\ \E event \in TracedEvents :
          LET r == SlotHandleEvent(handler, event, Len(events) + 1)
          IN /\ handler' = r.handler
             /\ events' = Append(events, [event |-> event,
                                          ignored |-> handler.done,
                                          effect |-> r.effect,
                                          done |-> r.handler.done])
    /\ UNCHANGED report_vars

NextWindow ==
    \/ HandleTimestampEvent
    \/ HandleSlotEvent

SpecWindow == InitWindow /\ [][NextWindow]_vars

\* ------------------------------------------ report(): collecting the tuples
\* report() starts from the batches the replay left in the handler
\* (graphia_input.rs:65-81): every packet of every batch, in order, is
\* decoded, sanitized, given its priority and requested compute units, and
\* resolved against the address-lookup-table store.
\*
\* A packet, as far as the tool looks at it: the discard and forwarded flags
\* of its meta, what its bytes decode to, and for a transaction its first
\* signature, its instructions, the lookup tables it references and the
\* account locks it has once resolved.
MaxInstructions == 2

Tables == {1, 2}

\* An instruction of a program other than the compute-budget program.
OtherInstruction == [program |-> "other", data |-> [ix |-> "None"]]

ComputeBudgetInstruction(data) == [program |-> "compute_budget", data |-> data]

\* The data of a compute-budget instruction: what try_from_slice_unchecked
\* makes of it, "Malformed" standing for bytes it returns an error on.
ComputeBudgetData ==
    {[ix |-> "Malformed"], [ix |-> "RequestHeapFrame"],
     [ix |-> "SetLoadedAccountsDataSizeLimit"]}
    \cup {[ix |-> "RequestUnitsDeprecated", units |-> u, additional_fee |-> f] :
             u \in {0, 500000}, f \in {0, 2}}
    \cup {[ix |-> "SetComputeUnitLimit", units |-> u] : u \in {500000, 2000000}}
    \cup {[ix |-> "SetComputeUnitPrice", cu_price |-> c] : c \in {10}}

\* n instructions of other programs.
OtherInstructions(n) == [i \in 1..n |-> OtherInstruction]

MaxU64(a, b) == IF a >= b THEN a ELSE b

\* The loop of get_priority_and_requested_cus over the instructions
\* (graphia_input.rs:253-275); st.panicked is the unwrap of line 259 or the
\* division of line 266 panicking.
RECURSIVE PriorityLoop(_, _)
PriorityLoop(instructions, st) ==
    IF instructions = <<>> \/ st.panicked THEN st
    ELSE LET ix == Head(instructions)
             d == ix.data
         IN PriorityLoop(Tail(instructions),
                IF ix.program # "compute_budget"
                THEN [st EXCEPT !.non_compute_budget_ix_count = @ + 1]
                ELSE IF d.ix = "Malformed"
                THEN [st EXCEPT !.panicked = TRUE]
                ELSE IF d.ix = "RequestUnitsDeprecated"
                THEN IF d.units = 0
                     THEN [st EXCEPT !.requested_cus = {d.units}, !.panicked = TRUE]
                     ELSE [st EXCEPT !.requested_cus = {d.units},
                                     !.priority = (d.additional_fee * 1000000) \div d.units]
                ELSE IF d.ix = "SetComputeUnitLimit"
                THEN [st EXCEPT !.requested_cus = {d.units}]
                ELSE IF d.ix = "SetComputeUnitPrice"
                THEN [st EXCEPT !.priority = d.cu_price]
                ELSE st)

\* get_priority_and_requested_cus (graphia_input.rs:248-283)
get_priority_and_requested_cus(tx) ==
    LET st == PriorityLoop(tx.instructions,
                           [non_compute_budget_ix_count |-> 0, priority |-> 0,
                            requested_cus |-> {}, panicked |-> FALSE])
        unwrapped == IF st.requested_cus = {}
                     THEN st.non_compute_budget_ix_count * 200000
                     ELSE CHOOSE u \in st.requested_cus : TRUE
    IN [panicked |-> st.panicked,
        priority |-> st.priority,
        requested_cus |-> MaxU64(unwrapped, 1400000)]

\* p.data(..) is Some: the packet is not marked discard.
HasData(p) == ~p.discard

\* bincode::deserialize::<VersionedTransaction>(data).ok() is Some
Deserializes(p) == HasData(p) /\ p.data # "garbage"

\* SanitizedVersionedTransaction::try_from(tx).ok() is Some
Sanitizes(p) == p.data = "tx"

\* Mutant of Resolves: a transaction whose lookup fails is kept.
ResolvesAlways(p, alt_store) == TRUE

\* SanitizedTransaction::try_new(tx, hash, false, &self.alt_store).ok() is
\* Some: the store knows every lookup table the transaction references.
Resolves(p, alt_store) == p.address_table_lookups \subseteq alt_store

\* The flat_map of report() over the batches.
RECURSIVE Flatten(_)
Flatten(batches) ==
    IF batches = <<>> THEN <<>> ELSE Head(batches) \o Flatten(Tail(batches))

\* The chain of filter_map and map of report(), packet by packet; a panic in
\* get_priority_and_requested_cus ends it.
RECURSIVE CollectTuples(_, _, _)
CollectTuples(packets, alt_store, collected) ==
    IF packets = <<>> THEN [panicked |-> FALSE, tuples |-> collected]
    ELSE LET p == Head(packets)
         IN IF ~Deserializes(p) \/ ~Sanitizes(p)
            THEN CollectTuples(Tail(packets), alt_store, collected)
            ELSE LET r == get_priority_and_requested_cus(p)
                 IN IF r.panicked THEN [panicked |-> TRUE, tuples |-> <<>>]
                    ELSE IF ~Resolves(p, alt_store)
                    THEN CollectTuples(Tail(packets), alt_store, collected)
                    ELSE CollectTuples(Tail(packets), alt_store,
                             Append(collected,
                                    [signature |-> p.signature,
                                     priority |-> r.priority,
                                     requested_cus |-> r.requested_cus,
                                     writable |-> p.writable,
                                     readonly |-> p.readonly]))

\* GraphiaInputHandler::new; the store is what alt-store.bin holds.
NewGraphiaInputHandler(slot, alt_store) ==
    [type |-> "GraphiaInputHandler",
     slot |-> slot,
     current_packet_batches |-> <<>>,
     done |-> FALSE,
     alt_store |-> alt_store]

\* The packets of the collected input: bytes that are no transaction, with
\* or without the discard flag, and transactions over a few instruction
\* lists, lookups and lock sets.
PacketLocks ==
    {[writable |-> {1}, readonly |-> {}],
     [writable |-> {}, readonly |-> {1}],
     [writable |-> {NumAccounts}, readonly |-> {1} \ {NumAccounts}]}

PacketInstructions ==
    {OtherInstructions(1),
     <<ComputeBudgetInstruction([ix |-> "SetComputeUnitPrice", cu_price |-> 10]),
       OtherInstruction>>,
     <<ComputeBudgetInstruction([ix |-> "Malformed"]), OtherInstruction>>,
     <<ComputeBudgetInstruction([ix |-> "RequestUnitsDeprecated", units |-> 0,
                                 additional_fee |-> 2]), OtherInstruction>>}

NoTransaction(discard, data) ==
    [discard |-> discard, forwarded |-> FALSE, data |-> data,
     instructions |-> <<>>, address_table_lookups |-> {},
     writable |-> {}, readonly |-> {}]

Transaction(instructions, lookups, locks) ==
    [discard |-> FALSE, forwarded |-> FALSE, data |-> "tx",
     instructions |-> instructions, address_table_lookups |-> lookups,
     writable |-> locks.writable, readonly |-> locks.readonly]

Packets ==
    {NoTransaction(TRUE, "tx"), NoTransaction(FALSE, "garbage"),
     NoTransaction(FALSE, "unsanitary")}
    \cup {Transaction(i, l, k) :
             i \in PacketInstructions, l \in {{}, {1}, {2}}, k \in PacketLocks}

\* One transaction over every list of up to MaxInstructions compute-budget
\* instructions followed by 0, 1 or 8 instructions of other programs.
BudgetInstructionLists ==
    {b \o OtherInstructions(n) :
        b \in UNION {[1..k -> {ComputeBudgetInstruction(d) : d \in ComputeBudgetData}] :
                        k \in 0..MaxInstructions},
        n \in {0, 1, 8}}

BudgetPackets ==
    {Transaction(i, {}, [writable |-> {1}, readonly |-> {}]) : i \in BudgetInstructionLists}

\* The packet p as the i-th packet of the input; the signature stands for
\* the transaction.
Signed(p, i) ==
    [signature |-> i, discard |-> p.discard, forwarded |-> p.forwarded, data |-> p.data,
     instructions |-> p.instructions, address_table_lookups |-> p.address_table_lookups,
     writable |-> p.writable, readonly |-> p.readonly]

\* The packets as the replay pushed them: batches of up to two packets.
InBatches(packets) ==
    IF Len(packets) <= 2 THEN <<packets>>
    ELSE <<SubSeq(packets, 1, 2), SubSeq(packets, 3, Len(packets))>>

\* The handler when the replay has ended with these packets accumulated.
Replayed(packets) ==
    [NewGraphiaInputHandler(1, {1}) EXCEPT
        !.current_packet_batches = InBatches(packets),
        !.done = TRUE]

\* report() is called when the replay has ended: the handler holds the
\* batches of the slot, and no event is fed any more.
InitCollect ==
    /\ transaction_tuples = <<>>
    /\ pc = "collect"
    /\ FreshRun
    /\ run = 1
    /\ first_run = <<>>
    /\ events = <<>>
    /\ \/ \E n \in 0..MaxTx : \E packets \in [1..n -> Packets] :
             handler = Replayed([i \in 1..n |-> Signed(packets[i], i)])
       \/ \E p \in BudgetPackets : handler = Replayed(<<Signed(p, 1)>>)

\* graphia_input.rs:65-81; a panic ends the process with nothing written.
Collect ==
    /\ pc = "collect"
    /\ LET r == CollectTuples(Flatten(handler.current_packet_batches),
                              handler.alt_store, <<>>)
       IN /\ transaction_tuples' = r.tuples
          /\ pc' = IF r.panicked THEN "panicked" ELSE "sort"
    /\ UNCHANGED <<next_index, prio_graph, popped, nodes, edges, edge_count,
                   layers, unblocked_log, run, first_run>>
    /\ UNCHANGED handler_vars

NextCollect ==
    \/ Collect
    \/ Next

SpecCollect == InitCollect /\ [][NextCollect]_vars

\* ------------------------------------- the replay into the analysing handlers
\* graphia-input accumulates the batches of one slot (graphia_input.rs:45-56,
\* 186-198); packet-count and duplicate-check look at every packet of the
\* non-vote batches inside their window of timestamps.
MaxReplay == 3
MaxGraphiaEvents == 5
MaxReplayTime == 2
MaxSignatures == 2

ReplayTimestamps == 1..MaxReplayTime
Signatures == 1..MaxSignatures

\* Mutant of IsNonVote: the TPU vote channel taken for analysis too.
IsNonVoteOrTpuVote(label) == label \in {"NonVote", "TpuVote"}

\* matches!(label, ChannelLabel::NonVote)
IsNonVote(label) == label = "NonVote"

\* GraphiaInputHandler::handle_packet_batches
GraphiaHandlePacketBatches(h, label, packet_batches) ==
    IF IsNonVote(label)
    THEN [h EXCEPT !.current_packet_batches = Append(@, packet_batches)]
    ELSE h

\* Mutant of OtherSlot: every boundary from the slot on ends the accumulation.
OtherSlotBelow(h, slot) == slot < h.slot

\* if self.slot != slot
OtherSlot(h, slot) == h.slot # slot

\* GraphiaInputHandler::handle_block_and_bank_hash
GraphiaHandleBlockAndBankHash(h, slot) ==
    IF OtherSlot(h, slot)
    THEN [h EXCEPT !.current_packet_batches = <<>>]
    ELSE [h EXCEPT !.done = TRUE]

\* Mutant of ReturnsEarly: handle_event without the test of done.
ReturnsEarlyNever(h) == FALSE

\* if self.done { return; }
ReturnsEarly(h) == h.done

\* GraphiaInputHandler::handle_event
GraphiaHandleEvent(h, event) ==
    IF ReturnsEarly(h) THEN h
    ELSE IF event.kind = "PacketBatch"
         THEN GraphiaHandlePacketBatches(h, event.label, event.batch)
         ELSE GraphiaHandleBlockAndBankHash(h, event.slot)

\* usize::from(bool)
UsizeFrom(b) == IF b THEN 1 ELSE 0

\* PacketMetrics::default(), without the staked counters and the per-IP maps.
DefaultPacketMetrics ==
    [total_count |-> 0, valid_count |-> 0, valid_unique_count |-> 0,
     tpu_count |-> 0, fwd_count |-> 0,
     tpu_unique_count |-> 0, fwd_unique_count |-> 0,
     signature_set |-> {}]

\* Mutant of CountPacket: valid_count counts every valid packet, unique or
\* not.
CountPacketEveryValid(pm, packet) ==
    LET counted == [pm EXCEPT !.total_count = @ + 1]
        valid == ~packet.discard
        forwarded == packet.forwarded
    IN IF HasData(packet) /\ ~Deserializes(packet) THEN counted
       ELSE LET unique == HasData(packet) /\ packet.signature \notin pm.signature_set
            IN [counted EXCEPT
                   !.signature_set = IF HasData(packet) THEN @ \cup {packet.signature} ELSE @,
                   !.valid_count = @ + UsizeFrom(valid),
                   !.valid_unique_count = @ + UsizeFrom(valid /\ unique),
                   !.tpu_count = @ + UsizeFrom(valid /\ ~forwarded),
                   !.fwd_count = @ + UsizeFrom(valid /\ forwarded),
                   !.tpu_unique_count = @ + UsizeFrom(valid /\ ~forwarded /\ unique),
                   !.fwd_unique_count = @ + UsizeFrom(valid /\ forwarded /\ unique)]

\* The body of the loop of PacketCounter::handle_packet_batches for one
\* packet (packet_count.rs:179-254).
CountPacket(pm, packet) ==
    LET counted == [pm EXCEPT !.total_count = @ + 1]
        valid == ~packet.discard
        forwarded == packet.forwarded
    IN IF HasData(packet) /\ ~Deserializes(packet) THEN counted
       ELSE LET unique == HasData(packet) /\ packet.signature \notin pm.signature_set
            IN [counted EXCEPT
                   !.signature_set = IF HasData(packet) THEN @ \cup {packet.signature} ELSE @,
                   !.valid_count = @ + UsizeFrom(valid /\ unique),
                   !.valid_unique_count = @ + UsizeFrom(valid /\ unique),
                   !.tpu_count = @ + UsizeFrom(valid /\ ~forwarded),
                   !.fwd_count = @ + UsizeFrom(valid /\ forwarded),
                   !.tpu_unique_count = @ + UsizeFrom(valid /\ ~forwarded /\ unique),
                   !.fwd_unique_count = @ + UsizeFrom(valid /\ forwarded /\ unique)]

RECURSIVE CountPackets(_, _)
CountPackets(pm, packets) ==
    IF packets = <<>> THEN pm
    ELSE CountPackets(CountPacket(pm, Head(packets)), Tail(packets))

\* PacketCounter::handle_packet_batches
CounterHandlePacketBatches(h, label, packet_batches) ==
    IF IsNonVote(label)
    THEN [h EXCEPT !.packet_metrics = CountPackets(@, packet_batches)]
    ELSE h

\* Mutant of CheckPacket: a repeat with the flag of the first packet is
\* counted in duplicate_tpu_count or duplicate_forwarded_count by its flag.
CheckPacketCountsEveryRepeat(signature_states, packet) ==
    IF ~HasData(packet) \/ ~Deserializes(packet) THEN signature_states
    ELSE IF packet.signature \in DOMAIN signature_states
         THEN IF packet.forwarded
              THEN [signature_states EXCEPT
                       ![packet.signature].duplicate_forwarded_count = @ + 1]
              ELSE [signature_states EXCEPT
                       ![packet.signature].duplicate_tpu_count = @ + 1]
         ELSE (packet.signature :> [initial_forwarded |-> packet.forwarded,
                                    duplicate_tpu_count |-> 0,
                                    duplicate_forwarded_count |-> 0])
              @@ signature_states

\* The body of the loop of DuplicateChecker::handle_packet_batches for one
\* packet (duplicate_check.rs:85-110).
CheckPacket(signature_states, packet) ==
    IF ~HasData(packet) \/ ~Deserializes(packet) THEN signature_states
    ELSE IF packet.signature \in DOMAIN signature_states
         THEN IF signature_states[packet.signature].initial_forwarded # packet.forwarded
              THEN [signature_states EXCEPT
                       ![packet.signature].duplicate_forwarded_count = @ + 1]
              ELSE signature_states
         ELSE (packet.signature :> [initial_forwarded |-> packet.forwarded,
                                    duplicate_tpu_count |-> 0,
                                    duplicate_forwarded_count |-> 0])
              @@ signature_states

RECURSIVE CheckPackets(_, _)
CheckPackets(signature_states, packets) ==
    IF packets = <<>> THEN signature_states
    ELSE CheckPackets(CheckPacket(signature_states, Head(packets)), Tail(packets))

\* DuplicateChecker::handle_packet_batches
DuplicateHandlePacketBatches(h, label, packet_batches) ==
    IF IsNonVote(label)
    THEN [h EXCEPT !.signature_states = CheckPackets(@, packet_batches)]
    ELSE h

\* The loop of DuplicateChecker::report over the signatures not yet visited
\* (duplicate_check.rs:130-140), from the totals so far.
RECURSIVE ReportTotals(_, _, _)
ReportTotals(signature_states, signatures, totals) ==
    IF signatures = {} THEN totals
    ELSE LET signature == CHOOSE s \in signatures : TRUE
             state == signature_states[signature]
         IN ReportTotals(signature_states, signatures \ {signature},
               [total_packets |->
                   totals.total_packets + 1 + state.duplicate_tpu_count
                      + state.duplicate_forwarded_count,
                total_duplicate_packets |->
                   totals.total_duplicate_packets + state.duplicate_tpu_count
                      + state.duplicate_forwarded_count,
                total_tpu_packets |->
                   totals.total_tpu_packets + state.duplicate_tpu_count
                      + UsizeFrom(~state.initial_forwarded),
                total_forwarded_packets |->
                   totals.total_forwarded_packets + state.duplicate_forwarded_count
                      + UsizeFrom(state.initial_forwarded),
                duplicate_tpu_packets |->
                   totals.duplicate_tpu_packets + state.duplicate_tpu_count,
                duplicate_forwarded_packets |->
                   totals.duplicate_forwarded_packets + state.duplicate_forwarded_count])

\* The counts DuplicateChecker::report prints (duplicate_check.rs:119-140,
\* 153-158); the percentages are quotients of these.
DuplicateReport(h) ==
    ReportTotals(h.signature_states, DOMAIN h.signature_states,
                 [total_packets |-> 0, total_duplicate_packets |-> 0,
                  total_tpu_packets |-> 0, total_forwarded_packets |-> 0,
                  duplicate_tpu_packets |-> 0, duplicate_forwarded_packets |-> 0])

\* PacketCounter::new
NewPacketCounter(start_timestamp, end_timestamp) ==
    [type |-> "PacketCounter",
     start_timestamp |-> start_timestamp,
     end_timestamp |-> end_timestamp,
     started |-> start_timestamp = {},
     done |-> FALSE,
     packet_metrics |-> DefaultPacketMetrics]

\* DuplicateChecker::new
NewDuplicateChecker(start_timestamp, end_timestamp) ==
    [type |-> "DuplicateChecker",
     start_timestamp |-> start_timestamp,
     end_timestamp |-> end_timestamp,
     started |-> start_timestamp = {},
     done |-> FALSE,
     signature_states |-> <<>>]

\* handle_event of PacketCounter and of DuplicateChecker: the window test,
\* then the handler of the event's kind (handle_block_and_bank_hash only
\* prints).
AnalysisHandleEvent(h, timestamp, event) ==
    LET r == TimestampHandleEvent(h, timestamp, event.kind)
    IN IF r.dispatched # "handle_packet_batches" THEN r.handler
       ELSE IF h.type = "PacketCounter"
            THEN CounterHandlePacketBatches(r.handler, event.label, event.batch)
            ELSE DuplicateHandlePacketBatches(r.handler, event.label, event.batch)

\* The packets of a replayed batch: bytes that are no transaction, a
\* discarded packet, and transactions with a signature, come straight or
\* forwarded.
ReplayPackets ==
    {NoTransaction(FALSE, "garbage"), NoTransaction(TRUE, "tx")}
    \cup {[Transaction(OtherInstructions(1), {}, [writable |-> {1}, readonly |-> {}])
              EXCEPT !.forwarded = f] : f \in BOOLEAN}

\* The events fed to PacketCounter and DuplicateChecker: batches of one packet.
AnalysisEvents ==
    {[kind |-> "PacketBatch", label |-> l,
      batch |-> <<[signature |-> s] @@ p>>] :
         l \in Labels, s \in Signatures, p \in ReplayPackets}
    \cup {[kind |-> "BlockAndBankHash", slot |-> 1]}

\* The events fed to GraphiaInputHandler, the n-th of the replay: a batch
\* holds one transaction, signed n.
GraphiaEvents(n) ==
    {[kind |-> "PacketBatch", label |-> l,
      batch |-> <<Signed(Transaction(OtherInstructions(1), {},
                                     [writable |-> {1}, readonly |-> {}]), n)>>] :
         l \in Labels}
    \cup {[kind |-> "BlockAndBankHash", slot |-> s] : s \in Slots}

InitReplay ==
    /\ ReportIdle
    /\ events = <<>>
    /\ \/ \E slot \in Slots : handler = NewGraphiaInputHandler(slot, {1})
       \/ \E start_timestamp \in Option(ReplayTimestamps),
             end_timestamp \in Option(ReplayTimestamps) :
             \/ handler = NewPacketCounter(start_timestamp, end_timestamp)
             \/ handler = NewDuplicateChecker(start_timestamp, end_timestamp)

\* process_event_files feeds the next event to GraphiaInputHandler.
HandleGraphiaEvent ==
    /\ handler.type = "GraphiaInputHandler"
    /\ Len(events) < MaxGraphiaEvents
    /\ \E event \in GraphiaEvents(Len(events) + 1) :
          /\ handler' = GraphiaHandleEvent(handler, event)
          /\ events' = Append(events, [event |-> event])
    /\ UNCHANGED report_vars

\* process_event_files feeds the next event to PacketCounter or DuplicateChecker.
HandleAnalysisEvent ==
    /\ handler.type \in {"PacketCounter", "DuplicateChecker"}
    /\ Len(events) < MaxReplay
    /\ \E timestamp \in ReplayTimestamps, event \in AnalysisEvents :
          /\ handler' = AnalysisHandleEvent(handler, timestamp, event)
          /\ events' = Append(events, [timestamp |-> timestamp, event |-> event])
    /\ UNCHANGED report_vars

NextReplay ==
    \/ HandleGraphiaEvent
    \/ HandleAnalysisEvent

SpecReplay == InitReplay /\ [][NextReplay]_vars

\* ------------------------------------------- update-alt-store and its store
\* update-alt-store accumulates the non-vote batches and, at every boundary
\* of its slot range, appends the lookup tables their transactions reference
\* to the store (update_alt_store.rs:39-89).
MaxAltEvents == 4

\* The packets of a traced batch as far as the store update reads them: a
\* discarded packet, bytes that are no transaction, and transactions that
\* reference no lookup table or one of the tables.
AltPackets ==
    {NoTransaction(TRUE, "tx"), NoTransaction(FALSE, "garbage")}
    \cup {Transaction(OtherInstructions(1), l, [writable |-> {1}, readonly |-> {}]) :
             l \in {{}, {1}, {2}}}

\* The events fed to update-alt-store, the n-th of the replay: a batch holds
\* one packet, signed n; the vote channels carry transactions with lookups.
AltStoreEvents(n) ==
    {[kind |-> "PacketBatch", label |-> "NonVote", batch |-> <<Signed(p, n)>>] :
         p \in AltPackets}
    \cup {[kind |-> "PacketBatch", label |-> "TpuVote",
           batch |-> <<Signed(Transaction(OtherInstructions(1), {1},
                                          [writable |-> {1}, readonly |-> {}]), n)>>],
          [kind |-> "PacketBatch", label |-> "GossipVote",
           batch |-> <<Signed(Transaction(OtherInstructions(1), {2},
                                          [writable |-> {1}, readonly |-> {}]), n)>>]}
    \cup {[kind |-> "BlockAndBankHash", slot |-> s] : s \in Slots}

\* UpdateAddressLookupTableStoreHandler::new; alt_store is what
\* Store::load_or_create found.
NewUpdateAddressLookupTableStoreHandler(start_slot, end_slot, alt_store) ==
    [type |-> "UpdateAddressLookupTableStoreHandler",
     range |-> [start |-> start_slot, end |-> end_slot],
     current_packet_batches |-> <<>>,
     done |-> FALSE,
     alt_store |-> alt_store]

\* Mutant of UniqueAlts: the lookups of the first accumulated batch only.
UniqueAltsOfFirstBatch(batches) ==
    IF batches = <<>> THEN {}
    ELSE UNION {p.address_table_lookups :
                   p \in {q \in Range(Head(batches)) : Deserializes(q)}}

\* The account keys of the address table lookups of every packet of the
\* batches that deserializes (update_alt_store.rs:67-79).
UniqueAlts(batches) ==
    UNION {p.address_table_lookups :
              p \in {q \in Range(Flatten(batches)) : Deserializes(q)}}

\* Store::update(&keys, UpdateMode::Append): Ok with the tables appended, or
\* an error of the store.
StoreUpdate(alt_store, keys, ok) ==
    [ok |-> ok, alt_store |-> IF ok THEN alt_store \cup keys ELSE alt_store]

\* handle_block_and_bank_hash (update_alt_store.rs:58-89); processed is what
\* the update has read, and the unwrap of a store error panics.
AltStoreHandleBlockAndBankHash(h, slot, ok) ==
    IF ~RangeContains(h.range, slot)
    THEN [handler |-> [h EXCEPT !.done = @ \/ PastRangeEnd(h.range, slot)],
          processed |-> <<>>, panicked |-> FALSE]
    ELSE LET unique_alts == UniqueAlts(h.current_packet_batches)
             r == StoreUpdate(h.alt_store, unique_alts, ok)
         IN IF r.ok
            THEN [handler |-> [h EXCEPT !.alt_store = r.alt_store,
                                        !.current_packet_batches = <<>>],
                  processed |-> h.current_packet_batches, panicked |-> FALSE]
            ELSE [handler |-> h,
                  processed |-> h.current_packet_batches, panicked |-> TRUE]

\* handle_event (update_alt_store.rs:39-50)
AltStoreHandleEvent(h, event, ok) ==
    IF h.done THEN [handler |-> h, processed |-> <<>>, panicked |-> FALSE]
    ELSE IF event.kind = "PacketBatch"
         THEN [handler |-> SlotHandlePacketBatches(h, event.label, event.batch),
               processed |-> <<>>, panicked |-> FALSE]
         ELSE AltStoreHandleBlockAndBankHash(h, event.slot, ok)

InitAltStore ==
    /\ ReportIdle
    /\ events = <<>>
    /\ \E start_slot \in Slots, end_slot \in Slots, alt_store \in {{}, {1}} :
          handler = NewUpdateAddressLookupTableStoreHandler(start_slot, end_slot, alt_store)

\* process_event_files feeds the next event to update-alt-store
\* (update_alt_store.rs:16); a panic ends the process.
HandleAltStoreEvent ==
    /\ pc = "replay"
    /\ Len(events) < MaxAltEvents
    /\ \E event \in AltStoreEvents(Len(events) + 1), ok \in BOOLEAN :
          LET r == AltStoreHandleEvent(handler, event, ok)
          IN /\ handler' = r.handler
             /\ events' = Append(events, [event |-> event,
                                          ignored |-> handler.done,
                                          processed |-> r.processed,
                                          panicked |-> r.panicked])
             /\ pc' = IF r.panicked THEN "panicked" ELSE pc
    /\ UNCHANGED <<transaction_tuples, next_index, prio_graph, popped, nodes, edges,
                   edge_count, layers, unblocked_log, run, first_run>>

NextAltStore == HandleAltStoreEvent

SpecAltStore == InitAltStore /\ [][NextAltStore]_vars

\* -------------------------------------------------------------- slot-ranges
\* slot-ranges prints the runs of consecutive boundary slots of the trace
\* (slot_ranges.rs). A Slot is a u64; the model keeps SlotBits bits of it.
SlotBits == 2
MaxRangeEvents == 5

\* u64::MAX
SlotMAX == 2^SlotBits - 1

RangeSlots == 0..SlotMAX

\* u64::saturating_add
saturating_add(a, b) == IF a + b > SlotMAX THEN SlotMAX ELSE a + b

\* The events fed to slot-ranges: of a PacketBatch nothing is read.
SlotRangesEvents ==
    {[kind |-> "PacketBatch"]}
    \cup {[kind |-> "BlockAndBankHash", slot |-> s] : s \in RangeSlots}

\* SlotRangesHandler::default()
NewSlotRangesHandler == [type |-> "SlotRangesHandler", current_range |-> {}]

\* report_current_range: the line println! writes, if any.
report_current_range(h) == h.current_range

\* SlotRangesHandler::handle_event (slot_ranges.rs:21-35)
SlotRangesHandleEvent(h, event) ==
    IF event.kind # "BlockAndBankHash" THEN [handler |-> h, printed |-> {}]
    ELSE LET new == [start |-> event.slot, end |-> event.slot]
         IN IF h.current_range = {}
            THEN [handler |-> [h EXCEPT !.current_range = {new}], printed |-> {}]
            ELSE LET range == CHOOSE r \in h.current_range : TRUE
                 IN IF saturating_add(range.end, 1) = event.slot
                    THEN [handler |-> [h EXCEPT !.current_range =
                                                   {[range EXCEPT !.end = event.slot]}],
                          printed |-> {}]
                    ELSE [handler |-> [h EXCEPT !.current_range = {new}],
                          printed |-> report_current_range(h)]

InitSlotRanges ==
    /\ ReportIdle
    /\ events = <<>>
    /\ handler = NewSlotRangesHandler

\* process_event_files feeds the next event to slot-ranges (slot_ranges.rs:10).
HandleSlotRangesEvent ==
    /\ pc = "replay"
    /\ Len(events) < MaxRangeEvents
    /\ \E event \in SlotRangesEvents :
          LET r == SlotRangesHandleEvent(handler, event)
          IN /\ handler' = r.handler
             /\ events' = Append(events, [event |-> event, printed |-> r.printed])
    /\ UNCHANGED report_vars

\* process_event_files has returned Ok: the current range is printed
\* (slot_ranges.rs:11-12).
ReportLastRange ==
    /\ pc = "replay"
    /\ pc' = "reported"
    /\ events' = Append(events, [event |-> [kind |-> "EndOfTrace"],
                                 printed |-> report_current_range(handler)])
    /\ UNCHANGED handler
    /\ UNCHANGED <<transaction_tuples, next_index, prio_graph, popped, nodes, edges,
                   edge_count, layers, unblocked_log, run, first_run>>

\* process_event_files has returned an error, which `?` passes on
\* (slot_ranges.rs:10): nothing more is printed.
ReplayFails ==
    /\ pc = "replay"
    /\ pc' = "failed"
    /\ UNCHANGED handler_vars
    /\ UNCHANGED <<transaction_tuples, next_index, prio_graph, popped, nodes, edges,
                   edge_count, layers, unblocked_log, run, first_run>>

NextSlotRanges ==
    \/ HandleSlotRangesEvent
    \/ ReportLastRange
    \/ ReplayFails

SpecSlotRanges == InitSlotRanges /\ [][NextSlotRanges]_vars

\* ------------------------------------------------------- what the claims read
\* The transaction at 0-based position i of the sorted tuples.
TxAt(i) == transaction_tuples[i + 1]

Indices == 0..(Len(transaction_tuples) - 1)

PoppedSet == Range(nodes)

\* The 1-based position of index i in the exported node list (0 if absent).
NodePos(i) == IF i \in Range(nodes) THEN CHOOSE k \in 1..Len(nodes) : nodes[k] = i ELSE 0

\* The layers so far, the one being popped included.
AllLayers == IF pc = "pop" THEN Append(layers, popped) ELSE layers

LayerOf(i) ==
    IF \E k \in 1..Len(AllLayers) : \E j \in 1..Len(AllLayers[k]) : AllLayers[k][j].index = i
    THEN CHOOSE k \in 1..Len(AllLayers) : \E j \in 1..Len(AllLayers[k]) : AllLayers[k][j].index = i
    ELSE 0

ExportedPairs == {<<edges[k].source, edges[k].target>> : k \in 1..Len(edges)}

RECURSIVE PathWithin(_, _, _, _)
PathWithin(E, a, b, n) ==
    \/ <<a, b>> \in E
    \/ /\ n > 0
       /\ \E c \in Indices : <<a, c>> \in E /\ PathWithin(E, c, b, n - 1)

Path(E, a, b) == PathWithin(E, a, b, Len(transaction_tuples))

\* a is inserted before b and both write a common account.
WriteWritePair(a, b) ==
    /\ a \in Indices /\ b \in Indices /\ a < b
    /\ TxAt(a).writable \cap TxAt(b).writable # {}

\* C1: in a full run, for every pair A, B with A inserted before B and both
\* writing a common account, A is popped no later than B: whenever B has been
\* popped, A has been popped before it and in a layer that is not later.
C1_WriterOrder ==
    pc # "sort" =>
        \A a, b \in Indices :
            (WriteWritePair(a, b) /\ b \in PoppedSet) =>
                /\ a \in PoppedSet
                /\ NodePos(a) < NodePos(b)
                /\ LayerOf(a) <= LayerOf(b)

C1_Witness ==
    /\ pc = "done"
    /\ \E a, b \in Indices : WriteWritePair(a, b) /\ {a, b} \subseteq PoppedSet

Touched(i) == TxAt(i).writable \cup TxAt(i).readonly

\* a and b only read one common account and have no other account in common.
ReadReadPair(a, b) ==
    /\ a \in Indices /\ b \in Indices /\ a # b
    /\ Cardinality(Touched(a) \cap Touched(b)) = 1
    /\ Touched(a) \cap Touched(b) \subseteq (TxAt(a).readonly \cap TxAt(b).readonly)

InsertedIds == DOMAIN prio_graph.nodes

\* C3: two transactions that only read one common account and share no other
\* account have no edge between them in either direction, exported or
\* recorded in the builder, and neither is unblocked by the other.
C3_NoReadReadEdge ==
    pc # "sort" =>
        \A a, b \in Indices :
            ReadReadPair(a, b) =>
                /\ <<a, b>> \notin ExportedPairs
                /\ <<a, b>> \notin unblocked_log
                /\ \A x, y \in InsertedIds :
                      (x.index = a /\ y.index = b) => y \notin prio_graph.nodes[x].edges

\* Both transactions of such a pair are popped in the same layer.
C3_Witness ==
    /\ pc = "done"
    /\ \E a, b \in Indices :
          /\ ReadReadPair(a, b)
          /\ LayerOf(a) = LayerOf(b)
          /\ LayerOf(a) > 1

\* The insertion sequence is non-increasing in the PriorityKey ordering.
InsertionOrdered ==
    \A i, j \in Indices : i < j => TxAt(i).priority >= TxAt(j).priority

\* C4: for an insertion sequence that is non-increasing in the PriorityKey
\* ordering, the exported edge relation is acyclic: no node reaches itself.
C4_Acyclic ==
    (pc # "sort" /\ InsertionOrdered) =>
        \A a \in Indices : ~Path(ExportedPairs, a, a)

C4_Witness ==
    /\ pc = "done"
    /\ InsertionOrdered
    /\ Len(edges) >= 2

\* The scenario of C5: priorities 30, 20, 10; T1 writes {A}; T2 writes {A} and
\* reads {B}; T3 reads {B}.  A is account 1, B is account 2, and Tk is the
\* transaction with signature k.
Scenario ==
    /\ Len(transaction_tuples) = 3
    /\ Range(transaction_tuples) =
          {[signature |-> 1, priority |-> 30, writable |-> {1}, readonly |-> {}],
           [signature |-> 2, priority |-> 20, writable |-> {1}, readonly |-> {2}],
           [signature |-> 3, priority |-> 10, writable |-> {}, readonly |-> {2}]}

SignatureOf(i) == TxAt(i).signature

LayerSignatures(k) == {SignatureOf(layers[k][j].index) : j \in 1..Len(layers[k])}

\* C5: in the scenario the drain yields layer 1 = {T1, T3}, layer 2 = {T2}
\* and the exported edge set is exactly {T1 -> T2}.
C5_Scenario ==
    (Scenario /\ pc = "done") =>
        /\ Len(layers) = 2
        /\ LayerSignatures(1) = {1, 3}
        /\ LayerSignatures(2) = {2}
        /\ {<<SignatureOf(e[1]), SignatureOf(e[2])>> : e \in ExportedPairs} = {<<1, 2>>}
        /\ Len(edges) = 1

\* The scenario has been inserted in the order T1, T2, T3 and drained.
C5_Witness ==
    /\ Scenario
    /\ pc = "done"
    /\ nodes = <<0, 2, 1>>
    /\ \A i \in 1..3 : transaction_tuples[i].signature = i

\* The transactions that are ready: inserted, in-degree zero, not yet popped.
Ready ==
    {id \in InsertedIds :
        prio_graph.nodes[id].blocked_by_count = 0 /\ id.index \notin PoppedSet}

\* a is not after b in the PriorityKey ordering: priority descending, then
\* insertion index ascending.
KeyNotAfter(a, b) ==
    \/ a.priority > b.priority
    \/ a.priority = b.priority /\ a.index <= b.index

\* C6 as stated: every pop() returns a ready transaction that is first in the
\* PriorityKey ordering among the ready ones (greatest priority, then
\* smallest insertion index), and returns none only when none is ready.
C6_PopFirstInOrder ==
    [][pc = "pop" =>
         IF Ready = {}
         THEN popped' = popped
         ELSE /\ Len(popped') = Len(popped) + 1
              /\ popped'[Len(popped')] \in Ready
              /\ \A o \in Ready : KeyNotAfter(popped'[Len(popped')], o)]_vars

\* C7: in a step that unblocks the popped node p, an edge p -> target is
\* pushed exactly for the targets whose in-degree that unblock brings to
\* zero, once each; a target that stays blocked gets no edge in that step.
C7_EdgeWhenReady ==
    [][pc = "unblock" =>
         LET p == Head(popped)
             new == SubSeq(edges', Len(edges) + 1, Len(edges'))
             madeReady == {t \in InsertedIds :
                              /\ prio_graph.nodes[t].blocked_by_count # 0
                              /\ prio_graph'.nodes[t].blocked_by_count = 0}
         IN /\ Len(edges') >= Len(edges)
            /\ SubSeq(edges', 1, Len(edges)) = edges
            /\ {<<new[k].source, new[k].target>> : k \in 1..Len(new)}
                  = {<<p.index, t.index>> : t \in madeReady}
            /\ Len(new) = Cardinality(madeReady)]_vars

\* Some returned target was still blocked and got no edge, others got one.
C7_Witness ==
    /\ pc = "done"
    /\ edges # <<>>
    /\ unblocked_log \ ExportedPairs # {}

\* The export of a run: pop order, layer assignment and edge list.
Export == [nodes |-> nodes, layers |-> layers, edges |-> edges]

\* C8 as stated: a second run fed the identical insertion sequence on fresh
\* instances ends with the identical pop order, layers and edge list (same
\* source/target pairs under the same edge ids) as the first.
C8_Deterministic == (run = 2 /\ pc = "done") => Export = first_run

\* Every transaction has been popped exactly once and is exactly once in the
\* exported node list.
ExactlyOnce ==
    /\ Len(nodes) = Len(transaction_tuples)
    /\ Range(nodes) = Indices
    /\ \A i \in Indices :
          Cardinality({<<k, j>> \in (1..Len(layers)) \X (1..MaxTx) :
                          j <= Len(layers[k]) /\ layers[k][j].index = i}) = 1

\* A measure of the work report() has left: the tuples still to insert, the
\* transactions still to pop, the popped nodes still to unblock and the
\* position in the loops.
PcRank ==
    CASE pc = "sort" -> 4
      [] pc = "insert" -> 3
      [] pc = "loop" -> 2
      [] pc = "pop" -> 1
      [] OTHER -> 0

Rank ==
    (Len(transaction_tuples) - next_index)
    + 4 * (Len(transaction_tuples) - Len(nodes))
    + 3 * Len(popped)
    + PcRank

\* C9: the drain loop terminates (every step of report() lowers a measure
\* that is a natural number, and a step is possible until report() is
\* done), and when it has ended every inserted transaction has been popped
\* exactly once and is exactly once in the exported node list.
C9_DrainTerminates ==
    /\ [](Rank \in Nat)
    /\ [][Rank' < Rank]_vars
    /\ [](pc # "done" => ENABLED Next)
    /\ [](pc = "done" => ExactlyOnce)

C9_Witness == pc = "done" /\ Len(layers) >= 2 /\ Len(nodes) >= 2

AllInsertedPopped == \A id \in InsertedIds : id.index \in PoppedSet

C11_EmptyBuilder ==
    (pc # "sort" /\ InsertedIds = {}) =>
        /\ is_empty(prio_graph)
        /\ pop(prio_graph).id = {}
        /\ nodes = <<>>
        /\ edges = <<>>
        /\ Len(transaction_tuples) = 0 =>
              (pc \in {"insert", "loop", "done"} /\ layers = <<>> /\ edge_count = 0)

\* report() has run to its end on an input without transactions.
C11_Witness ==
    /\ Len(transaction_tuples) = 0
    /\ pc = "done"
    /\ is_empty(prio_graph)
    /\ Export = [nodes |-> <<>>, layers |-> <<>>, edges |-> <<>>]

\* ------------------------------------ the per-account chains, from the input
\* The account's last writer when the tuple at position k is inserted: the
\* latest tuple before k that writes account a ({} if there is none).
LastWriter(a, k) ==
    LET W == {i \in 0..(k - 1) : a \in TxAt(i).writable}
    IN IF W = {} THEN {} ELSE {CHOOSE i \in W : \A j \in W : j <= i}

\* The account's readers when the tuple at position k is inserted: the tuples
\* before k that read account a and come after its last writer.
Readers(a, k) ==
    {i \in 0..(k - 1) :
        /\ a \in TxAt(i).readonly
        /\ \A w \in LastWriter(a, k) : w < i}

\* What the builder holds for account a: the writer and the readers of its lock.
LockLastWriter(pg, a) ==
    IF a \notin DOMAIN pg.locks THEN {}
    ELSE IF pg.locks[a].kind = "Write" THEN {pg.locks[a].ids[1].index}
         ELSE {w.index : w \in pg.locks[a].write}

LockReaders(pg, a) ==
    IF a \notin DOMAIN pg.locks \/ pg.locks[a].kind = "Write" THEN <<>>
    ELSE [i \in 1..Len(pg.locks[a].ids) |-> pg.locks[a].ids[i].index]

\* The transactions that hold a blocking edge to id in the builder.
PredsOf(pg, id) == {x.index : x \in {y \in DOMAIN pg.nodes : id \in pg.nodes[y].edges}}

\* The tuple inserted last (0-based position), while the insertion loop runs.
JustInserted == next_index - 1

\* Every conflicting earlier holder of account a, for the tuple at position k.
Conflicting(a, k) ==
    IF a \in TxAt(k).writable THEN LastWriter(a, k) \cup Readers(a, k)
    ELSE IF a \in TxAt(k).readonly THEN LastWriter(a, k)
    ELSE {}

WriteBlockers(a, k) == IF Readers(a, k) # {} THEN Readers(a, k) ELSE LastWriter(a, k)

C13_ReadEdgeFromWriterOnly ==
    (pc = "insert" /\ next_index > 0) =>
        LET k == JustInserted
        IN \A a \in TxAt(k).readonly :
              /\ LastWriter(a, k) \subseteq PredsOf(prio_graph, IdAt(k))
              /\ \A r \in Readers(a, k) :
                    r \in PredsOf(prio_graph, IdAt(k)) =>
                        \E b \in Accounts \ {a} : r \in Conflicting(b, k)
              /\ LockReaders(prio_graph, a) = Append(SetToSeq(Readers(a, k)), k)
              /\ LockLastWriter(prio_graph, a) = LastWriter(a, k)

\* A read was inserted after a writer and another reader of the account.
C13_Witness ==
    /\ pc = "insert" /\ next_index > 0
    /\ \E a \in TxAt(JustInserted).readonly :
          /\ LastWriter(a, JustInserted) # {}
          /\ Readers(a, JustInserted) # {}
          /\ PredsOf(prio_graph, IdAt(JustInserted)) = LastWriter(a, JustInserted)

\* The positions inserted so far.
InsertedIndices == 0..(next_index - 1)

\* The nearest holders of account a that the tuple at position k conflicts
\* with when it is inserted.
NearestOn(a, k) ==
    IF a \in TxAt(k).writable THEN WriteBlockers(a, k)
    ELSE IF a \in TxAt(k).readonly THEN LastWriter(a, k)
    ELSE {}

\* The predecessors of the tuple at position k, over all its accounts.
Predecessors(k) == UNION {NearestOn(a, k) : a \in Accounts}

\* A predecessor is resolved once it has been unblocked.
Unresolved(i) == prio_graph.nodes[IdAt(i)].active

InDegree(k) == prio_graph.nodes[IdAt(k)].blocked_by_count

C16_InsertionOrder ==
    /\ [](pc # "sort" =>
            /\ \A i, j \in Indices :
                  i < j =>
                     /\ TxAt(i).priority >= TxAt(j).priority
                     /\ TxAt(i).priority = TxAt(j).priority =>
                           TxAt(i).signature < TxAt(j).signature
            /\ InsertedIds = {IdAt(k) : k \in InsertedIndices}
            /\ Cardinality(InsertedIds) = next_index
            /\ \A x, y \in InsertedIds : x.index = y.index => x = y)
    /\ [][next_index' > next_index =>
            /\ next_index' = next_index + 1
            /\ InsertedIds' = InsertedIds \cup {IdAt(next_index)}
            /\ IdAt(next_index) \notin InsertedIds
            /\ \A x \in InsertedIds :
                  /\ x.index < next_index
                  /\ x.priority >= IdAt(next_index).priority]_vars

\* Three transactions have been inserted, two of equal priority among them,
\* and the sort has moved a transaction that arrived later to the front.
C16_Witness ==
    /\ pc = "insert"
    /\ next_index = 3
    /\ TxAt(0).signature # 1
    /\ \E i, j \in Indices : i < j /\ TxAt(i).priority = TxAt(j).priority

\* ------------------------------------------ what the window claims read
IsTimestampHandler == handler.type = "TimestampHandler"

IsSlotHandler == handler.type \in {"AccountUsageHandler", "UpdateAddressLookupTableStoreHandler"}

\* Among the first i events, one that handle_event did not return early from
\* (a handled event) has a timestamp >= start; or there is no start bound.
ReachedStart(i) ==
    \/ handler.start_timestamp = {}
    \/ \E j \in 1..i : /\ ~events[j].ignored
                       /\ \E start \in handler.start_timestamp : events[j].timestamp >= start

\* Among the first i events, one has a timestamp > end.
PassedEnd(i) ==
    \E j \in 1..i : \E end \in handler.end_timestamp : events[j].timestamp > end

\* Among the first i events, one is a slot boundary with a slot > the range's end.
PassedEndSlot(i) ==
    \E j \in 1..i : /\ events[j].event.kind = "BlockAndBankHash"
                    /\ events[j].event.slot > handler.range.end

\* C17: in a timestamp handler started is true initially if and only if there
\* is no start bound; after every event it is true if and only if there is no
\* start bound or a handled event so far (one handle_event did not return
\* early from) had a timestamp >= start, so it becomes true at the first such
\* event; and no event resets it to false.
C17_StartedLatches ==
    /\ [](IsTimestampHandler =>
            /\ events = <<>> => (handler.started <=> handler.start_timestamp = {})
            /\ handler.started <=> ReachedStart(Len(events))
            /\ \A i \in 1..Len(events) : events[i].started <=> ReachedStart(i))
    /\ [][(IsTimestampHandler /\ handler.started) => handler'.started]_vars

\* started was false after the first event, true after the second, and still
\* true after a third event with a timestamp below the start bound.
C17_Witness ==
    /\ IsTimestampHandler
    /\ Len(events) >= 3
    /\ ~events[1].started
    /\ events[2].started
    /\ \E start \in handler.start_timestamp : events[3].timestamp < start
    /\ events[3].started
    /\ ~handler.done

\* C18: in a windowed handler done is false initially; after every event it
\* is true if and only if an event so far had a position beyond the upper
\* bound (a timestamp > end in a timestamp handler, a slot boundary with a
\* slot > the range's end in a slot handler), so it becomes true at the first
\* such event; once true it stays true; and with no upper bound it is never set.
C18_DoneLatches ==
    /\ [](events = <<>> => (IsTimestampHandler \/ IsSlotHandler) /\ ~handler.done)
    /\ [](IsTimestampHandler =>
            /\ handler.done <=> PassedEnd(Len(events))
            /\ \A i \in 1..Len(events) : events[i].done <=> PassedEnd(i)
            /\ handler.end_timestamp = {} => ~handler.done)
    /\ [](IsSlotHandler =>
            /\ handler.done <=> PassedEndSlot(Len(events))
            /\ \A i \in 1..Len(events) : events[i].done <=> PassedEndSlot(i))
    /\ [][(pc = "replay" /\ handler.done) => (handler' = handler)]_vars

\* A slot handler: a boundary of the range's last slot left done false, a
\* boundary beyond it set done, and a later boundary inside the range was
\* ignored.
C18_Witness ==
    /\ IsSlotHandler
    /\ Len(events) >= 3
    /\ events[1].event = [kind |-> "BlockAndBankHash", slot |-> handler.range.end]
    /\ ~events[1].done
    /\ events[2].event.kind = "BlockAndBankHash"
    /\ events[2].done
    /\ events[3].event = [kind |-> "BlockAndBankHash", slot |-> handler.range.end]
    /\ events[3].ignored
    /\ handler.done

\* The scenario of C19: no start bound, end = 5, events at 1, 3, 5, 6.
WindowScenario ==
    /\ IsTimestampHandler
    /\ handler.start_timestamp = {}
    /\ handler.end_timestamp = {5}
    /\ Len(events) = 4
    /\ [i \in 1..4 |-> events[i].timestamp] = <<1, 3, 5, 6>>

\* C19: in the scenario started is true after each of the four events, done
\* is false, false, false, true after them, the first three events are acted
\* upon and the fourth is not.
C19_WindowScenario ==
    WindowScenario =>
        /\ [i \in 1..4 |-> events[i].started] = <<TRUE, TRUE, TRUE, TRUE>>
        /\ [i \in 1..4 |-> events[i].done] = <<FALSE, FALSE, FALSE, TRUE>>
        /\ \A i \in 1..3 : events[i].dispatched = DispatchOf(events[i].kind)
        /\ events[4].dispatched = "none"

C19_Witness ==
    /\ WindowScenario
    /\ handler.started
    /\ handler.done
    /\ events[3].dispatched # "none"
    /\ events[4].dispatched = "none"

\* The timestamp lies in the inclusive range [start_ts, end_ts], a missing
\* bound being unbounded on that side.
InWindow(timestamp) ==
    /\ \A start \in handler.start_timestamp : timestamp >= start
    /\ \A end \in handler.end_timestamp : timestamp <= end

\* C20 as stated: for every sequence of events fed to a timestamp handler, an
\* event is acted upon if and only if its timestamp lies in the window.
C20_ActedIffInWindow ==
    IsTimestampHandler =>
        \A i \in 1..Len(events) :
            events[i].dispatched # "none" <=> InWindow(events[i].timestamp)

NonDecreasing == \A i, j \in 1..Len(events) : i <= j => events[i].timestamp <= events[j].timestamp

\* C20 amended: an event is acted upon (dispatched to the handler of its
\* kind) if and only if an event up to and including it had a timestamp >=
\* start (or there is no start bound) and no event up to and including it had
\* a timestamp > end; for a sequence of events with non-decreasing timestamps
\* that is: if and only if its timestamp lies in the window.
C20_ActedIffWindowOpen ==
    IsTimestampHandler =>
        /\ \A i \in 1..Len(events) :
              /\ events[i].dispatched # "none" <=> (ReachedStart(i) /\ ~PassedEnd(i))
              /\ events[i].dispatched \in {"none", DispatchOf(events[i].kind)}
        /\ NonDecreasing =>
              \A i \in 1..Len(events) :
                  events[i].dispatched # "none" <=> InWindow(events[i].timestamp)

\* Events in time order: one before the window, not acted upon; one inside
\* it, acted upon; one after it, not acted upon.
C20_Witness ==
    /\ IsTimestampHandler
    /\ NonDecreasing
    /\ Len(events) >= 3
    /\ ~InWindow(events[1].timestamp) /\ events[1].dispatched = "none"
    /\ InWindow(events[2].timestamp) /\ events[2].dispatched # "none"
    /\ ~InWindow(events[3].timestamp) /\ events[3].dispatched = "none"

\* ------------------------------------------------ what the layer claims read
\* The transactions at positions i and j conflict: there is an account that
\* one of them writes and the other reads or writes.
Conflict(i, j) ==
    \/ TxAt(i).writable \cap Touched(j) # {}
    \/ TxAt(j).writable \cap Touched(i) # {}

\* The positions of the transactions popped into layer k.
LayerIndices(k) == {AllLayers[k][j].index : j \in 1..Len(AllLayers[k])}

\* C28: no two transactions popped into the same layer conflict: for every
\* layer, the one being popped included, and every two distinct transactions
\* in it, no account is written by one and read or written by the other.
C28_LayerConflictFree ==
    pc # "sort" =>
        \A k \in 1..Len(AllLayers) :
            \A i, j \in LayerIndices(k) : i # j => ~Conflict(i, j)

\* The drain has ended with a layer of two transactions and a conflicting
\* transaction in another layer.
C28_Witness ==
    /\ pc = "done"
    /\ \E k \in 1..Len(layers) :
          /\ Cardinality(LayerIndices(k)) >= 2
          /\ \E i \in LayerIndices(k), j \in Indices : LayerOf(j) # k /\ Conflict(i, j)

\* The transactions that are ready while the drain runs: in-degree zero and
\* not yet popped.
ReadyIndices == {id.index : id \in Ready}

\* C29 as stated: unblock is never called while a ready transaction is still
\* un-popped; the popped nodes of a layer are unblocked in the order they
\* were popped; and a transaction made ready by unblocking a layer-k node is
\* popped in layer k+1, never in layer k.
C29_UnblockOnlyWhenNoneReady ==
    /\ [](pc = "unblock" => Ready = {})
    /\ [](pc = "unblock" =>
            popped = SubSeq(layers[Len(layers)],
                            Len(layers[Len(layers)]) - Len(popped) + 1,
                            Len(layers[Len(layers)])))
    /\ [](\A e \in ExportedPairs :
            e[2] \in PoppedSet => LayerOf(e[2]) = LayerOf(e[1]) + 1)

\* The transactions the unblock calls of the current layer have made ready.
MadeReadyByLayer ==
    {e[2] : e \in {x \in ExportedPairs : LayerOf(x[1]) = Len(layers)}}

\* C29 amended: the first unblock of a layer is called only when no ready
\* transaction is un-popped (the pop loop runs until pop returns none); the
\* later unblocks of the layer are called while the transactions that the
\* earlier unblocks of the same layer made ready wait in the queue, and no
\* others; the popped nodes of a layer are unblocked in the order they were
\* popped; and a transaction made ready by unblocking a layer-k node is
\* popped in layer k+1, never in layer k.
C29_UnblockInPopOrder ==
    /\ []((pc = "unblock" /\ popped = layers[Len(layers)]) => Ready = {})
    /\ [](pc = "unblock" => ReadyIndices = MadeReadyByLayer)
    /\ [](pc = "unblock" =>
            popped = SubSeq(layers[Len(layers)],
                            Len(layers[Len(layers)]) - Len(popped) + 1,
                            Len(layers[Len(layers)])))
    /\ [][pc = "unblock" =>
            /\ prio_graph.nodes[Head(popped)].active
            /\ ~prio_graph'.nodes[Head(popped)].active
            /\ \A x \in InsertedIds \ {Head(popped)} :
                  prio_graph'.nodes[x].active = prio_graph.nodes[x].active]_vars
    /\ [](\A e \in ExportedPairs :
            e[2] \in PoppedSet => LayerOf(e[2]) = LayerOf(e[1]) + 1)

\* A later node of a layer is about to be unblocked while a transaction that
\* an earlier unblock of the same layer made ready waits in the queue.
C29_Witness ==
    /\ pc = "unblock"
    /\ Len(popped) < Len(layers[Len(layers)])
    /\ Ready # {}

\* C30: every exported edge goes from an earlier-inserted transaction to a
\* later-inserted one: the source's insertion index is strictly smaller than
\* the target's and the source's priority is >= the target's.
C30_EdgesForward ==
    pc # "sort" =>
        \A k \in 1..Len(edges) :
            /\ edges[k].source \in Indices /\ edges[k].target \in Indices
            /\ edges[k].source < edges[k].target
            /\ TxAt(edges[k].source).priority >= TxAt(edges[k].target).priority

\* Edges have been exported between transactions of different and of equal
\* priority.
C30_Witness ==
    /\ pc = "done"
    /\ \E k \in 1..Len(edges) :
          TxAt(edges[k].source).priority > TxAt(edges[k].target).priority
    /\ \E k \in 1..Len(edges) :
          TxAt(edges[k].source).priority = TxAt(edges[k].target).priority

\* ---------------------------------------- what the collection claims read
\* The packets report() reads, in order.
InputPackets == Flatten(handler.current_packet_batches)

\* The packet with the given signature.
PacketOf(signature) ==
    CHOOSE p \in Range(InputPackets) : p.signature = signature

IsCollecting == handler.type = "GraphiaInputHandler" /\ pc \notin {"collect", "replay"}

\* The instructions of a list that set a compute-unit limit.
LimitSetters(instructions) ==
    {i \in 1..Len(instructions) :
        /\ instructions[i].program = "compute_budget"
        /\ instructions[i].data.ix \in {"SetComputeUnitLimit", "RequestUnitsDeprecated"}}

\* The number of instructions of a list that are not compute-budget ones.
NonComputeBudgetCount(instructions) ==
    Cardinality({i \in 1..Len(instructions) : instructions[i].program # "compute_budget"})

\* C25 as stated: the requested-compute-units value of a collected
\* transaction is the explicitly requested limit when the transaction sets
\* one (the last one set); only when no limit is set is it the default,
\* number of non-compute-budget instructions x 200_000, raised to at least
\* 1_400_000.
C25_ExplicitLimitKept ==
    (IsCollecting /\ pc # "panicked") =>
        \A k \in 1..Len(transaction_tuples) :
            LET instructions == PacketOf(transaction_tuples[k].signature).instructions
                setters == LimitSetters(instructions)
            IN transaction_tuples[k].requested_cus =
                  IF setters # {}
                  THEN instructions[CHOOSE i \in setters : \A j \in setters : j <= i].data.units
                  ELSE MaxU64(NonComputeBudgetCount(instructions) * 200000, 1400000)

\* C26 as stated: a single malformed record never aborts a run: whatever the
\* packets are (bytes that fail to decode, compute-budget data that is
\* malformed or requests zero units), report() does not panic, the bad
\* record is skipped and the remaining transactions are collected.
C26_NeverAborts ==
    handler.type = "GraphiaInputHandler" =>
        /\ pc # "panicked"
        /\ IsCollecting =>
              {transaction_tuples[k].signature : k \in 1..Len(transaction_tuples)} =
                  {p.signature : p \in {q \in Range(InputPackets) :
                       /\ ~q.discard /\ q.data = "tx"
                       /\ q.address_table_lookups \subseteq handler.alt_store
                       /\ \A i \in 1..Len(q.instructions) :
                             /\ q.instructions[i].data.ix # "Malformed"
                             /\ q.instructions[i].data.ix = "RequestUnitsDeprecated" =>
                                   q.instructions[i].data.units # 0}}

\* The packets whose transaction report() can resolve, or that never get as
\* far as the resolution.
WithoutUnresolved(packets) ==
    SelectSeq(packets, LAMBDA p : ~(Deserializes(p) /\ Sanitizes(p))
                                    \/ p.address_table_lookups \subseteq handler.alt_store)

\* The transactions of the input whose lookups the store cannot satisfy.
UnresolvedPackets == {p \in Range(InputPackets) :
                  /\ Deserializes(p) /\ Sanitizes(p)
                  /\ ~(p.address_table_lookups \subseteq handler.alt_store)}

\* C27: when report() has collected the tuples, a transaction whose lookups
\* the store cannot satisfy is in none of them: the tuples are those that the
\* input without these transactions gives, so the insertion indices are
\* those of the remaining transactions, numbered 0, 1, ... without a gap; it
\* gets no node, is no end of an edge, and no lock of the builder names it.
C27_UnresolvedLeftOut ==
    (IsCollecting /\ pc # "panicked") =>
        /\ \A p \in UnresolvedPackets :
              \A k \in 1..Len(transaction_tuples) :
                  transaction_tuples[k].signature # p.signature
        /\ pc = "sort" =>
              transaction_tuples =
                  CollectTuples(WithoutUnresolved(InputPackets), handler.alt_store, <<>>).tuples
        /\ Len(transaction_tuples) =
              Cardinality({p \in Range(InputPackets) : Deserializes(p) /\ Sanitizes(p)})
              - Cardinality(UnresolvedPackets)
        /\ Range(nodes) \subseteq Indices
        /\ \A k \in 1..Len(edges) : {edges[k].source, edges[k].target} \subseteq Indices
        /\ \A id \in InsertedIds : id.index \in Indices
        /\ \A a \in DOMAIN prio_graph.locks :
              \A i \in 1..Len(prio_graph.locks[a].ids) :
                  /\ prio_graph.locks[a].ids[i] \in InsertedIds
                  /\ a \in Touched(prio_graph.locks[a].ids[i].index)

\* A transaction that cannot be resolved stood between two transactions of
\* the same account; the two have been exported as nodes 0 and 1 with the
\* edge between them.
C27_Witness ==
    /\ IsCollecting /\ pc = "done"
    /\ Len(InputPackets) = 3
    /\ InputPackets[2] \in UnresolvedPackets
    /\ InputPackets[2].writable = {1}
    /\ Len(transaction_tuples) = 2
    /\ ExportedPairs = {<<0, 1>>}

\* ------------------------------------------ what the slot-range claims read
\* The i-th event fed is a boundary whose slot satisfies the test.
BoundaryAt(i, Test(_)) ==
    events[i].event.kind = "BlockAndBankHash" /\ Test(events[i].event.slot)

InRangeSlot(slot) == handler.range.start <= slot /\ slot <= handler.range.end

AboveRangeSlot(slot) == slot > handler.range.end

\* The position of the first boundary above the range among the events fed
\* (one past the last event if there is none).
FirstAbove ==
    LET A == {i \in 1..Len(events) : BoundaryAt(i, AboveRangeSlot)}
    IN IF A = {} THEN Len(events) + 1 ELSE CHOOSE i \in A : \A j \in A : i <= j

\* The position of the last in-range boundary before position n (0 if none).
LastInRangeBefore(n) ==
    LET B == {i \in 1..(n - 1) : BoundaryAt(i, InRangeSlot)}
    IN IF B = {} THEN 0 ELSE CHOOSE i \in B : \A j \in B : j <= i

\* The non-vote batches fed strictly between positions a and b; a batch is
\* named by the position of its event.
NonVoteBetween(a, b) ==
    SetToSeq({i \in (a + 1)..(b - 1) :
                 events[i].event.kind = "PacketBatch" /\ events[i].event.label = "NonVote"})

IsGraphiaHandler == handler.type = "GraphiaInputHandler" /\ pc = "replay"

IsAnalysisHandler == handler.type \in {"PacketCounter", "DuplicateChecker"}

\* The event fed in this step.
FedEvent == events'[Len(events')].event

\* What the handler has accumulated for its analysis: the batches of
\* graphia-input, the counters and the signature set of packet-count, the
\* signature table of duplicate-check.
AnalysisState(h) ==
    IF h.type = "GraphiaInputHandler" THEN h.current_packet_batches
    ELSE IF h.type = "PacketCounter" THEN h.packet_metrics
    ELSE h.signature_states

\* C21: once a handler's done flag is true, every later event fed to
\* handle_event leaves the whole handler state unchanged (flags, accumulated
\* batches, counters, signature tables); and the replay is not stopped: as
\* long as the trace has events, handle_event is still called with them.
C21_DoneFreezesHandler ==
    /\ [][((IsGraphiaHandler \/ IsAnalysisHandler) /\ handler.done) =>
            /\ handler' = handler
            /\ Len(events') = Len(events) + 1]_vars
    /\ []((IsGraphiaHandler /\ handler.done /\ Len(events) < MaxGraphiaEvents) =>
            ENABLED HandleGraphiaEvent)
    /\ []((IsAnalysisHandler /\ handler.done /\ Len(events) < MaxReplay) =>
            ENABLED HandleAnalysisEvent)

\* A done graphia-input handler holding a batch was fed a non-vote batch and
\* then a boundary of another slot, and still holds what it held.
C21_Witness ==
    /\ IsGraphiaHandler
    /\ handler.done
    /\ Len(events) = 4
    /\ events[1].event.kind = "PacketBatch" /\ events[1].event.label = "NonVote"
    /\ events[2].event = [kind |-> "BlockAndBankHash", slot |-> handler.slot]
    /\ events[3].event.kind = "PacketBatch" /\ events[3].event.label = "NonVote"
    /\ events[4].event.kind = "BlockAndBankHash" /\ events[4].event.slot # handler.slot
    /\ handler.current_packet_batches = <<events[1].event.batch>>

\* The signatures of the transactions in the accumulated batches.
AccumulatedSignatures == {p.signature : p \in Range(Flatten(handler.current_packet_batches))}

\* C22: a PacketBatch event whose channel is not the non-vote channel never
\* changes any analysis state: graphia-input accumulates no batch for it
\* (and holds none of its transactions, so that none reaches the conflict
\* graph report() builds from the accumulated batches), packet-count updates
\* no counter and no signature entry, duplicate-check no signature entry.
C22_VoteBatchesIgnored ==
    /\ [][((IsGraphiaHandler \/ IsAnalysisHandler)
           /\ FedEvent.kind = "PacketBatch" /\ FedEvent.label # "NonVote") =>
            /\ AnalysisState(handler') = AnalysisState(handler)
            /\ IsGraphiaHandler => handler' = handler]_vars
    /\ [](IsGraphiaHandler =>
            \A n \in AccumulatedSignatures :
                /\ n \in 1..Len(events)
                /\ events[n].event.kind = "PacketBatch"
                /\ events[n].event.label = "NonVote")

\* packet-count, inside its window, has counted a non-vote packet and was
\* then fed a vote batch with a packet of a new signature.
C22_Witness ==
    /\ handler.type = "PacketCounter"
    /\ handler.started /\ ~handler.done
    /\ Len(events) = 2
    /\ events[1].event.kind = "PacketBatch" /\ events[1].event.label = "NonVote"
    /\ events[2].event.kind = "PacketBatch" /\ events[2].event.label = "TpuVote"
    /\ Deserializes(events[2].event.batch[1])
    /\ events[2].event.batch[1].signature \notin handler.packet_metrics.signature_set
    /\ handler.packet_metrics.total_count = 1
    /\ handler.packet_metrics.valid_count = 1

\* The position of the first boundary of the handler's slot among the events
\* fed (one past the last event if there is none).
FirstTargetBoundary ==
    LET A == {i \in 1..Len(events) :
                 events[i].event.kind = "BlockAndBankHash" /\ events[i].event.slot = handler.slot}
    IN IF A = {} THEN Len(events) + 1 ELSE CHOOSE i \in A : \A j \in A : i <= j

\* The position of the last boundary before position n (0 if there is none).
LastBoundaryBefore(n) ==
    LET B == {i \in 1..(n - 1) : events[i].event.kind = "BlockAndBankHash"}
    IN IF B = {} THEN 0 ELSE CHOOSE i \in B : \A j \in B : j <= i

\* The non-vote batches fed strictly between positions a and b, in order.
NonVoteBatchesBetween(a, b) ==
    LET S == SetToSeq({i \in (a + 1)..(b - 1) :
                          events[i].event.kind = "PacketBatch" /\ events[i].event.label = "NonVote"})
    IN [k \in 1..Len(S) |-> events[S[k]].event.batch]

\* C23: the graphia-input handler becomes done at the first boundary whose
\* slot is its slot S; from then on its accumulated batches are exactly the
\* non-vote batches received after the last boundary preceding it and before
\* it, whatever is fed afterwards; until then they are the non-vote batches
\* received since the last boundary.
C23_BatchesOfTheSlot ==
    IsGraphiaHandler =>
        /\ handler.done <=> FirstTargetBoundary <= Len(events)
        /\ handler.current_packet_batches =
              NonVoteBatchesBetween(LastBoundaryBefore(FirstTargetBoundary),
                                    FirstTargetBoundary)

\* A batch of the previous slot, that slot's boundary, a non-vote batch of
\* slot S, the boundary of S and a batch after it: the handler holds the
\* third event's batch alone.
C23_Witness ==
    /\ IsGraphiaHandler
    /\ handler.done
    /\ Len(events) = 5
    /\ events[1].event.kind = "PacketBatch" /\ events[1].event.label = "NonVote"
    /\ events[2].event.kind = "BlockAndBankHash" /\ events[2].event.slot # handler.slot
    /\ events[3].event.kind = "PacketBatch" /\ events[3].event.label = "NonVote"
    /\ events[4].event = [kind |-> "BlockAndBankHash", slot |-> handler.slot]
    /\ events[5].event.kind = "PacketBatch" /\ events[5].event.label = "NonVote"
    /\ handler.current_packet_batches = <<events[3].event.batch>>

\* ------------------------------------------ what the last claims read
\* The positions in the exported edge list of the edges into index i.
IncomingEdges(i) == {k \in 1..Len(edges) : edges[k].target = i}

\* C31: the exported graph is a forest. A node popped in the first layer has
\* no incoming exported edge; a node popped in a later layer has exactly one,
\* from a node of the layer before it (the one whose unblock made it ready);
\* no node ever has more than one; at the end of report() the number of edges
\* is the number of nodes minus the size of the first layer; and the edge ids
\* are 0, 1, 2, ... in order of emission, edge_count being the next id.
C31_ExportedForest ==
    /\ \A i \in PoppedSet :
          IF LayerOf(i) = 1
          THEN IncomingEdges(i) = {}
          ELSE /\ Cardinality(IncomingEdges(i)) = 1
               /\ \A k \in IncomingEdges(i) : LayerOf(edges[k].source) = LayerOf(i) - 1
    /\ \A k \in 1..Len(edges) : Cardinality(IncomingEdges(edges[k].target)) = 1
    /\ \A k \in 1..Len(edges) : edges[k].id = k - 1
    /\ pc \in {"loop", "pop", "unblock", "done"} => edge_count = Len(edges)
    /\ pc = "done" =>
          Len(edges) = Len(nodes) - (IF layers = <<>> THEN 0 ELSE Len(layers[1]))

\* report() has ended with a first layer of two nodes and a later node that
\* both of them blocked, so that one unblock returned a target that was still
\* blocked and exported no edge to it.
C31_Witness ==
    /\ pc = "done"
    /\ Len(layers) >= 2
    /\ Len(layers[1]) = 2
    /\ Len(edges) >= 1
    /\ \E i \in PoppedSet :
          /\ LayerOf(i) > 1
          /\ Cardinality({a \in Indices : <<a, i>> \in unblocked_log}) = 2

\* The positions of the events at which the batch of event n was processed.
ProcessedAt(n) ==
    {j \in 1..Len(events) :
        \E k \in 1..Len(events[j].processed) :
           events[j].processed[k] = events[n].event.batch}

\* Event j is a boundary of the slot range fed before the handler was done.
InWindowBoundary(j) == BoundaryAt(j, InRangeSlot) /\ j < FirstAbove

\* The lookup tables referenced by the transactions among the packets of
\* the batches.
LookupsOf(batches) ==
    {t \in Tables :
        \E k \in 1..Len(batches) : \E i \in 1..Len(batches[k]) :
           /\ ~batches[k][i].discard
           /\ batches[k][i].data = "tx"
           /\ t \in batches[k][i].address_table_lookups}

PrintedNow == events'[Len(events')].printed

\* The position of the last event before position j that printed a range
\* (0 if there is none).
LastPrintBefore(j) ==
    LET P == {i \in 1..(j - 1) : events[i].printed # {}}
    IN IF P = {} THEN 0 ELSE CHOOSE i \in P : \A k \in P : k <= i

\* The slots of the boundaries fed from position i to position j - 1, in
\* trace order.
SlotsSeen(i, j) ==
    LET S == SetToSeq({k \in i..(j - 1) : k >= 1 /\ events[k].event.kind = "BlockAndBankHash"})
    IN [k \in 1..Len(S) |-> events[S[k]].event.slot]

\* The slots start, start + 1, ..., end.
Run(range) == [k \in 1..(range.end - range.start + 1) |-> range.start + k - 1]

\* The step of a boundary fed to a handler that has a current range, with
\* Extends(end) as the slot that extends a range ending at end.
ExtendsOrPrints(Extends(_)) ==
    (pc = "replay" /\ pc' = "replay" /\ FedEvent.kind = "BlockAndBankHash"
        /\ handler.current_range # {}) =>
       LET range == CHOOSE r \in handler.current_range : TRUE
       IN IF FedEvent.slot = Extends(range.end)
          THEN /\ handler'.current_range = {[range EXCEPT !.end = FedEvent.slot]}
               /\ PrintedNow = {}
          ELSE /\ handler'.current_range =
                     {[start |-> FedEvent.slot, end |-> FedEvent.slot]}
               /\ PrintedNow = {range}

\* The end of the replay prints the current range.
PrintsLastRange ==
    (pc = "replay" /\ pc' = "reported") => PrintedNow = handler.current_range

\* Every printed range has start <= end and its slots are the boundary
\* slots fed since the previous printed range, in trace order.
PrintedRuns ==
    \A j \in 1..Len(events) : \A range \in events[j].printed :
       /\ range.start <= range.end
       /\ SlotsSeen(LastPrintBefore(j), j) = Run(range)

PlusOne(end) == end + 1

\* C33: slot_ranges prints the maximal runs of consecutive boundary slots in
\* trace order: a boundary whose slot is the current range's end + 1 extends
\* the range and prints nothing, a boundary with any other slot prints the
\* current range and starts a new range of that slot alone, the end of the
\* replay prints the last range, and every printed range has start <= end
\* and its slots are exactly the boundary slots fed since the previous
\* printed range, in order.
C33_MaximalRuns ==
    /\ [][ExtendsOrPrints(PlusOne)]_vars
    /\ [][PrintsLastRange]_vars
    /\ []PrintedRuns

\* handle_event dispatched event i of the replay into a timestamp window:
\* started was reached by an event that was not ignored, and no event up to
\* i had a timestamp > end.
DispatchedAt(i) ==
    /\ \/ handler.start_timestamp = {}
       \/ \E j \in 1..i : /\ ~PassedEnd(j - 1)
                          /\ \E start \in handler.start_timestamp :
                                events[j].timestamp >= start
    /\ ~PassedEnd(i)

\* The packet of the batch of event i.
PacketAt(i) == events[i].event.batch[1]

\* The positions of the decodable non-vote packets in the window.
DecodablePositions ==
    {i \in 1..Len(events) :
        /\ DispatchedAt(i)
        /\ events[i].event.kind = "PacketBatch"
        /\ events[i].event.label = "NonVote"
        /\ ~PacketAt(i).discard
        /\ PacketAt(i).data = "tx"}

\* The position of the first decodable packet with the signature.
FirstWith(signature) ==
    CHOOSE i \in DecodablePositions :
       /\ PacketAt(i).signature = signature
       /\ \A j \in DecodablePositions : PacketAt(j).signature = signature => i <= j

\* The positions of the repeats whose forwarded flag differs from that of
\* the first packet with their signature.
FlagDifferingRepeats ==
    {i \in DecodablePositions :
        /\ i # FirstWith(PacketAt(i).signature)
        /\ PacketAt(i).forwarded # PacketAt(FirstWith(PacketAt(i).signature)).forwarded}

CountedPositions ==
    {i \in 1..Len(events) :
        /\ DispatchedAt(i)
        /\ events[i].event.kind = "PacketBatch"
        /\ events[i].event.label = "NonVote"}

\* C35: in packet_count, after any sequence of events, valid_count =
\* valid_unique_count <= tpu_count + fwd_count <= total_count and
\* tpu_unique_count + fwd_unique_count = valid_unique_count; total_count is
\* the number of non-vote packets in the window and valid_unique_count the
\* number of signatures seen.
C35_CounterRelations ==
    handler.type = "PacketCounter" =>
        LET pm == handler.packet_metrics
        IN /\ pm.valid_count = pm.valid_unique_count
           /\ pm.valid_unique_count <= pm.tpu_count + pm.fwd_count
           /\ pm.tpu_count + pm.fwd_count <= pm.total_count
           /\ pm.tpu_unique_count + pm.fwd_unique_count = pm.valid_unique_count
           /\ pm.total_count = Cardinality(CountedPositions)
           /\ pm.valid_unique_count = Cardinality(pm.signature_set)

\* A transaction, a repeat of it and a packet that is no valid transaction
\* were counted: both inequalities are strict, and a forwarded packet was
\* among them.
C35_Witness ==
    /\ handler.type = "PacketCounter"
    /\ handler.packet_metrics.valid_count = 1
    /\ handler.packet_metrics.tpu_count = 1
    /\ handler.packet_metrics.fwd_count = 1
    /\ handler.packet_metrics.total_count = 3

====
